---- MODULE Spec2Model ----
(***************************************************************************)
(* Model of the per-frame movement controller of movement_demo             *)
(* (src/player.py, src/character_profiles.py).                             *)
(*                                                                         *)
(* Velocities and profile parameters are Python floats in the source; here *)
(* they are fixed-point integers in units of 1/Scale (three decimals).     *)
(* pygame.Rect coordinates are integers: assigning a float to rect.x or    *)
(* rect.y truncates toward zero.                                           *)
(*                                                                         *)
(* The CharacterProfile instances are objects of the module                *)
(* character_profiles, edited in place: profile is the object the player   *)
(* refers to, inactive the other objects that were selected before, by     *)
(* name, as they were left.                                                *)
(***************************************************************************)
EXTENDS Integers, Sequences, FiniteSets, TLC

VARIABLES player, profile, inactive, platforms, hazards, obs, ticks

vars == <<player, profile, inactive, platforms, hazards, obs, ticks>>

\* ------------------------------------------------------------------ numbers

\* Fixed-point unit: 1.0 is Scale.
Scale == 10 * 10 * 10

Abs(a) == IF a < 0 THEN -a ELSE a
Min(a, b) == IF a < b THEN a ELSE b
Max(a, b) == IF a > b THEN a ELSE b

\* Integer quotient rounded toward zero (C cast of a double to int).
TruncDiv(a, b) == IF a >= 0 THEN a \div b ELSE -((-a) \div b)

\* Product of two fixed-point numbers.
Mul(a, b) == TruncDiv(a * b, Scale)

\* rect.x += velocity.x : the float sum is truncated into the integer Rect.
MoveInt(pos, vel) == TruncDiv(pos * Scale + vel, Scale)

\* ------------------------------------------------------------------ geometry

\* Player sprite size (Player.__init__).
PlayerWidth == 30
PlayerHeight == 60

\* World bottom: settings.SCREEN_HEIGHT (settings.py), read by Player.update.
SCREEN_HEIGHT == 160

Rect(x, y, w, h) == [x |-> x, y |-> y, w |-> w, h |-> h]

\* pygame.Rect.colliderect: strict overlap, empty rectangles never collide.
colliderect(a, b) ==
    /\ a.w > 0 /\ a.h > 0 /\ b.w > 0 /\ b.h > 0
    /\ a.x < b.x + b.w
    /\ a.y < b.y + b.h
    /\ a.x + a.w > b.x
    /\ a.y + a.h > b.y

\* self.rect of a player record.
rect(p) == Rect(p.x, p.y, PlayerWidth, PlayerHeight)

\* pygame.Rect.inflate(2, 0): one pixel wider on each side.
inflate_2_0(r) == Rect(r.x - 1, r.y, r.w + 2, r.h)

\* pygame.Rect.centerx
centerx(r) == r.x + (r.w \div 2)

\* ------------------------------------------------------------------ profiles

\* The fields __post_init__ snapshots and reset_physics restores.
DefaultKeys == {"gravity", "falling_gravity", "walk_speed", "acceleration", "jump_force"}

\* CharacterProfile.__post_init__: the constructed profile carries the
\* snapshot self._defaults of its five tunable fields.
post_init(fields) == [defaults |-> [k \in DefaultKeys |-> fields[k]]] @@ fields

\* CharacterProfile instances of character_profiles.py; floats in 1/Scale.
MARIO == post_init(
    [name |-> "Mario",
     walk_speed |-> 4000, run_speed |-> 8000, acceleration |-> 300,
     deceleration |-> 300, skid_deceleration |-> 600, has_momentum |-> TRUE,
     jump_force |-> 14000, jump_force_run_bonus |-> 2000, has_double_jump |-> FALSE,
     has_dash |-> FALSE, dash_speed |-> 0, dash_duration |-> 0,
     gravity |-> 600, falling_gravity |-> 1000, max_fall_speed |-> 12000,
     air_acceleration_multiplier |-> 700, no_horizontal_drag |-> TRUE,
     run_buffer_frames |-> 10, coyote_time |-> 6, jump_buffer |-> 5,
     has_wall_slide |-> FALSE, wall_slide_speed |-> 0, has_wall_jump |-> FALSE,
     wall_jump_style |-> "celeste", wall_stick_time |-> 0])

SUPER_MEAT_BOY == post_init(
    [name |-> "Super Meat Boy",
     walk_speed |-> 6000, run_speed |-> 10000, acceleration |-> 2000,
     deceleration |-> 2000, skid_deceleration |-> 2000, has_momentum |-> FALSE,
     jump_force |-> 15000, jump_force_run_bonus |-> 0, has_double_jump |-> FALSE,
     has_dash |-> FALSE, dash_speed |-> 0, dash_duration |-> 0,
     gravity |-> 700, falling_gravity |-> 700, max_fall_speed |-> 15000,
     air_acceleration_multiplier |-> 1000, no_horizontal_drag |-> TRUE,
     run_buffer_frames |-> 0, coyote_time |-> 4, jump_buffer |-> 3,
     has_wall_slide |-> TRUE, wall_slide_speed |-> 2000, has_wall_jump |-> TRUE,
     wall_jump_style |-> "smb", wall_stick_time |-> 15])

ZELDA_LINK == post_init(
    [name |-> "Link",
     walk_speed |-> 4500, run_speed |-> 4500, acceleration |-> 1500,
     deceleration |-> 1500, skid_deceleration |-> 1500, has_momentum |-> FALSE,
     jump_force |-> 13000, jump_force_run_bonus |-> 0, has_double_jump |-> FALSE,
     has_dash |-> TRUE, dash_speed |-> 12000, dash_duration |-> 20,
     gravity |-> 800, falling_gravity |-> 800, max_fall_speed |-> 12000,
     air_acceleration_multiplier |-> 500, no_horizontal_drag |-> FALSE,
     run_buffer_frames |-> 0, coyote_time |-> 3, jump_buffer |-> 3,
     has_wall_slide |-> FALSE, wall_slide_speed |-> 0, has_wall_jump |-> FALSE,
     wall_jump_style |-> "celeste", wall_stick_time |-> 0])

MADELINE == post_init(
    [name |-> "Madeline",
     walk_speed |-> 5500, run_speed |-> 5500, acceleration |-> 1200,
     deceleration |-> 1200, skid_deceleration |-> 1200, has_momentum |-> FALSE,
     jump_force |-> 14500, jump_force_run_bonus |-> 0, has_double_jump |-> TRUE,
     has_dash |-> TRUE, dash_speed |-> 15000, dash_duration |-> 12,
     gravity |-> 650, falling_gravity |-> 900, max_fall_speed |-> 13000,
     air_acceleration_multiplier |-> 850, no_horizontal_drag |-> TRUE,
     run_buffer_frames |-> 0, coyote_time |-> 5, jump_buffer |-> 4,
     has_wall_slide |-> TRUE, wall_slide_speed |-> 1500, has_wall_jump |-> TRUE,
     wall_jump_style |-> "celeste", wall_stick_time |-> 10])

N_NINJA == post_init(
    [name |-> "Ninja (N++)",
     walk_speed |-> 5000, run_speed |-> 11000, acceleration |-> 400,
     deceleration |-> 200, skid_deceleration |-> 300, has_momentum |-> TRUE,
     jump_force |-> 13000, jump_force_run_bonus |-> 0, has_double_jump |-> FALSE,
     has_dash |-> FALSE, dash_speed |-> 0, dash_duration |-> 0,
     gravity |-> 550, falling_gravity |-> 550, max_fall_speed |-> 18000,
     air_acceleration_multiplier |-> 900, no_horizontal_drag |-> TRUE,
     run_buffer_frames |-> 15, coyote_time |-> 5, jump_buffer |-> 5,
     has_wall_slide |-> TRUE, wall_slide_speed |-> 2500, has_wall_jump |-> TRUE,
     wall_jump_style |-> "npp", wall_stick_time |-> 0])

\* ------------------------------------------------------------------ tuning

\* The control panel's sliders (ui.py) and the ranges the LLM result is
\* clamped to (llm_physics.py): parameter |-> <<min_val, max_val>>.
SliderRange ==
    [gravity |-> <<100, 2 * Scale>>,
     falling_gravity |-> <<100, 2500>>,
     walk_speed |-> <<Scale, 12 * Scale>>,
     acceleration |-> <<50, 2500>>,
     jump_force |-> <<5 * Scale, 20 * Scale>>]

\* Width of a slider's track in pixels.
SliderWidth == 155

\* Slider.adjust_by_step: one 5% step in direction -1 or +1, clamped.
adjust_by_step(pr, name, direction) ==
    [pr EXCEPT ![name] =
        Max(SliderRange[name][1],
            Min(pr[name] + direction * TruncDiv(SliderRange[name][2] - SliderRange[name][1], 20),
                SliderRange[name][2]))]

\* Slider.get_value_from_pos for the mouse offset pixels right of the track's
\* left end.
get_value_from_pos(name, offset) ==
    SliderRange[name][1]
    + TruncDiv(Max(0, Min(offset, SliderWidth)) * (SliderRange[name][2] - SliderRange[name][1]),
               SliderWidth)

\* Slider.update_val: a click or drag on the track.
update_val(pr, name, offset) == [pr EXCEPT ![name] = get_value_from_pos(name, offset)]

\* llm_physics.apply_physics: every key of the dict that is an attribute of
\* the profile is set; a dict with an "error" key is refused.
apply_physics(pr, physics_dict) ==
    IF "error" \in DOMAIN physics_dict THEN pr
    ELSE [k \in DOMAIN pr |-> IF k \in DOMAIN physics_dict THEN physics_dict[k] ELSE pr[k]]

\* _parse_response builds its result in the order of valid_params, and
\* apply_physics sets the attributes in the order of the dict.
ValidParams == <<"gravity", "falling_gravity", "walk_speed", "acceleration", "jump_force">>

\* apply_physics after the first n iterations of its loop over valid_params'
\* keys: the keys of the dict among them are set, the others not yet.
apply_physics_upto(pr, physics_dict, n) ==
    [k \in DOMAIN pr |->
        IF \E i \in 1..n : ValidParams[i] = k /\ k \in DOMAIN physics_dict
        THEN physics_dict[k] ELSE pr[k]]

\* reset_physics leaving jump_force as it is.
reset_physics_M(pr) ==
    [k \in DOMAIN pr |-> IF k \in DefaultKeys \ {"jump_force"} THEN pr.defaults[k] ELSE pr[k]]

\* CharacterProfile.reset_physics
reset_physics(pr) ==
    [k \in DOMAIN pr |-> IF k \in DOMAIN pr.defaults THEN pr.defaults[k] ELSE pr[k]]

\* ------------------------------------------------------------------ player

\* Player.__init__: the state after construction at pos.
NewPlayer(pos) ==
    [x |-> pos[1], y |-> pos[2], original_pos |-> pos,
     vx |-> 0, vy |-> 0,
     on_ground |-> FALSE, is_skidding |-> FALSE, facing_right |-> TRUE,
     on_wall |-> FALSE, wall_direction |-> 0, wall_stick_timer |-> 0,
     run_button_held |-> FALSE, run_buffer_timer |-> 0,
     dash_active |-> FALSE, dash_timer |-> 0, dash_direction |-> 0,
     has_double_jumped |-> FALSE, jump_button_was_pressed |-> FALSE,
     air_timer |-> 0, jump_buffer_timer |-> 0,
     last_input_direction |-> 0]

\* Raw device state of one frame: keys held (keyboard OR controller).
\* dir is the move direction the keys give (right wins over left).
Input(dir, run, jump, dash) == [dir |-> dir, run |-> run, jump |-> jump, dash |-> dash]

\* get_input, dash activation: the dash key is held, the profile has a dash
\* and no dash is active.
dash_starts(p, pr, in) == pr.has_dash /\ ~p.dash_active /\ in.dash

start_dash(p, pr, in) ==
    IF dash_starts(p, pr, in)
    THEN [p EXCEPT !.dash_active = TRUE,
                   !.dash_timer = pr.dash_duration,
                   !.dash_direction = IF p.facing_right THEN 1 ELSE -1]
    ELSE p

\* dash_step ending the dash one tick late (timer < 0 instead of <= 0).
dash_step_M(p, pr) ==
    [p EXCEPT !.vx = p.dash_direction * pr.dash_speed,
              !.dash_timer = p.dash_timer - 1,
              !.dash_active = ~(p.dash_timer - 1 < 0)]

\* get_input, the dash override: velocity.x forced, timer decremented, the
\* rest of get_input skipped.
dash_step(p, pr) ==
    [p EXCEPT !.vx = p.dash_direction * pr.dash_speed,
              !.dash_timer = p.dash_timer - 1,
              !.dash_active = ~(p.dash_timer - 1 <= 0)]

\* get_input, run button and run buffer.
run_step(p, pr, in) ==
    [p EXCEPT !.run_button_held = in.run,
              !.run_buffer_timer = IF in.run THEN pr.run_buffer_frames
                                   ELSE Max(0, p.run_buffer_timer - 1)]

\* is_running without the buffer.
is_running_M(p) == p.run_button_held

is_running(p) == p.run_button_held \/ p.run_buffer_timer > 0

\* get_input, wall stickiness: the effective move direction and the timer.
on_wall_airborne(p) == p.on_wall /\ ~p.on_ground

away_input(p, move_dir) == move_dir # 0 /\ move_dir # p.wall_direction

\* stick_dir honouring away input at once.
stick_dir_M(p, move_dir) == move_dir

stick_dir(p, move_dir) ==
    IF on_wall_airborne(p) /\ away_input(p, move_dir) /\ p.wall_stick_timer > 0
    THEN 0 ELSE move_dir

stick_step(p, pr, move_dir) ==
    IF on_wall_airborne(p)
    THEN IF away_input(p, move_dir)
         THEN IF p.wall_stick_timer > 0
              THEN [p EXCEPT !.wall_stick_timer = p.wall_stick_timer - 1]
              ELSE p
         ELSE [p EXCEPT !.wall_stick_timer = pr.wall_stick_time]
    ELSE p

\* get_input, target speed of the effective move direction.
target_speed(p, pr, move_dir) ==
    IF move_dir = -1 THEN (IF is_running(p) THEN -pr.run_speed ELSE -pr.walk_speed)
    ELSE IF move_dir = 1 THEN (IF is_running(p) THEN pr.run_speed ELSE pr.walk_speed)
    ELSE 0

facing_step(p, move_dir) ==
    IF move_dir = -1 THEN [p EXCEPT !.facing_right = FALSE]
    ELSE IF move_dir = 1 THEN [p EXCEPT !.facing_right = TRUE]
    ELSE p

\* get_input, skidding classification.
skidding(p, pr, target) ==
    /\ pr.has_momentum /\ p.on_ground
    /\ \/ (target > 0 /\ p.vx < -(Scale \div 2))
       \/ (target < 0 /\ p.vx > (Scale \div 2))

\* get_input, acceleration toward a nonzero target speed.
accel_rate(p, pr) ==
    IF p.is_skidding THEN pr.skid_deceleration
    ELSE IF p.on_ground THEN pr.acceleration
    ELSE Mul(pr.acceleration, pr.air_acceleration_multiplier)

\* accelerate without the clamp at the target speed.
accelerate_M(p, pr, target) ==
    IF ~pr.has_momentum THEN target
    ELSE IF p.vx < target THEN p.vx + accel_rate(p, pr)
    ELSE p.vx - accel_rate(p, pr)

accelerate(p, pr, target) ==
    IF ~pr.has_momentum THEN target
    ELSE IF p.vx < target THEN Min(p.vx + accel_rate(p, pr), target)
    ELSE Max(p.vx - accel_rate(p, pr), target)

\* Air drag constant of get_input (0.2).
air_drag == Scale \div 5

\* decelerate with the air drag applied whatever no_horizontal_drag says.
decelerate_M(p, pr) ==
    IF p.on_ground
    THEN IF ~pr.has_momentum THEN 0
         ELSE IF p.vx > 0 THEN Max(p.vx - pr.deceleration, 0)
         ELSE IF p.vx < 0 THEN Min(p.vx + pr.deceleration, 0)
         ELSE p.vx
    ELSE IF p.vx > 0 THEN Max(p.vx - air_drag, 0)
         ELSE IF p.vx < 0 THEN Min(p.vx + air_drag, 0)
         ELSE p.vx

\* get_input, deceleration with no effective move direction.
decelerate(p, pr) ==
    IF p.on_ground
    THEN IF ~pr.has_momentum THEN 0
         ELSE IF p.vx > 0 THEN Max(p.vx - pr.deceleration, 0)
         ELSE IF p.vx < 0 THEN Min(p.vx + pr.deceleration, 0)
         ELSE p.vx
    ELSE IF ~pr.no_horizontal_drag
         THEN IF p.vx > 0 THEN Max(p.vx - air_drag, 0)
              ELSE IF p.vx < 0 THEN Min(p.vx + air_drag, 0)
              ELSE p.vx
         ELSE p.vx

\* get_input, horizontal motion model: velocity.x after the input step.
horizontal(p, pr, target) ==
    IF target # 0 THEN accelerate(p, pr, target) ELSE decelerate(p, pr)

\* jump_edge reading the level of the key.
jump_edge_M(p, in) == in.jump

\* get_input, jump button: rising edge arms the buffer, else it counts down.
jump_edge(p, in) == in.jump /\ ~p.jump_button_was_pressed

\* jump_input arming the buffer one tick too long.
jump_input_M(p, pr, in) ==
    [p EXCEPT !.jump_buffer_timer = IF jump_edge(p, in) THEN pr.jump_buffer + 1
                                    ELSE Max(0, p.jump_buffer_timer - 1),
              !.jump_button_was_pressed = in.jump]

jump_input(p, pr, in) ==
    [p EXCEPT !.jump_buffer_timer = IF jump_edge(p, in) THEN pr.jump_buffer
                                    ELSE Max(0, p.jump_buffer_timer - 1),
              !.jump_button_was_pressed = in.jump]

\* get_input without the dash: run buffer, direction, wall stick, horizontal
\* motion, jump buffer.
store_dir(p, in) == [p EXCEPT !.last_input_direction = in.dir]

skid_step(p, pr, target) == [p EXCEPT !.is_skidding = skidding(p, pr, target)]

move_step(p, pr, target) == [p EXCEPT !.vx = horizontal(p, pr, target)]

\* The target speed of the frame: p is the state after the run step.
frame_target(p, pr, in) == target_speed(p, pr, stick_dir(p, in.dir))

steer(p, pr, in) ==
    move_step(skid_step(facing_step(stick_step(p, pr, in.dir), stick_dir(p, in.dir)),
                        pr, frame_target(p, pr, in)),
              pr, frame_target(p, pr, in))

normal_input(p, pr, in) ==
    jump_input(steer(store_dir(run_step(p, pr, in), in), pr, in), pr, in)

\* get_input counting the jump buffer down on a dash tick as well.
dash_or_input_M(p, pr, in) ==
    IF p.dash_active
    THEN [dash_step(p, pr) EXCEPT !.jump_buffer_timer = Max(0, p.jump_buffer_timer - 1)]
    ELSE normal_input(p, pr, in)

\* Player.get_input
dash_or_input(p, pr, in) ==
    IF p.dash_active THEN dash_step(p, pr) ELSE normal_input(p, pr, in)

\* get_input storing the input direction before the dash check.
get_input_M(p, pr, in) == dash_or_input(start_dash(store_dir(p, in), pr, in), pr, in)

get_input(p, pr, in) == dash_or_input(start_dash(p, pr, in), pr, in)

\* ------------------------------------------------------------------ collisions

\* check_collisions('horizontal'), one platform of the loop.
collide_h(p, s) ==
    IF colliderect(s, rect(p))
    THEN IF p.vx > 0 THEN [p EXCEPT !.x = s.x - PlayerWidth, !.vx = 0]
         ELSE IF p.vx < 0 THEN [p EXCEPT !.x = s.x + s.w, !.vx = 0]
         ELSE p
    ELSE p

\* collide_v landing without clearing the air timer and the double jump.
collide_v_M(p, s) ==
    IF colliderect(s, rect(p))
    THEN IF p.vy > 0
         THEN [p EXCEPT !.y = s.y - PlayerHeight, !.vy = 0, !.on_ground = TRUE]
         ELSE IF p.vy < 0 THEN [p EXCEPT !.y = s.y + s.h, !.vy = 0]
         ELSE p
    ELSE p

\* check_collisions('vertical'), one platform of the loop; a downward hit lands.
collide_v(p, s) ==
    IF colliderect(s, rect(p))
    THEN IF p.vy > 0
         THEN [p EXCEPT !.y = s.y - PlayerHeight, !.vy = 0, !.on_ground = TRUE,
                        !.air_timer = 0, !.has_double_jumped = FALSE]
         ELSE IF p.vy < 0 THEN [p EXCEPT !.y = s.y + s.h, !.vy = 0]
         ELSE p
    ELSE p

\* The loops over self.level.platforms, in the group's order, from platform i on.
RECURSIVE horizontal_from(_, _, _)
horizontal_from(p, plats, i) ==
    IF i > Len(plats) THEN p ELSE horizontal_from(collide_h(p, plats[i]), plats, i + 1)

RECURSIVE vertical_from(_, _, _)
vertical_from(p, plats, i) ==
    IF i > Len(plats) THEN p ELSE vertical_from(collide_v(p, plats[i]), plats, i + 1)

\* Player.check_collisions
check_collisions(p, plats, direction) ==
    IF direction = "horizontal" THEN horizontal_from(p, plats, 1)
    ELSE vertical_from(p, plats, 1)

\* The outcome of a check_collisions pass: the actor p after the axis'
\* displacement, q after the pass.  Some platform that overlapped p still
\* overlaps q, or the velocity component of the axis is not 0 although a
\* platform overlapped p.
unresolved(p, q, plats, direction) ==
    \E i \in 1..Len(plats) :
        /\ colliderect(plats[i], rect(p))
        /\ \/ colliderect(plats[i], rect(q))
           \/ (IF direction = "horizontal" THEN q.vx ELSE q.vy) # 0

\* check_wall_contact, one platform of the loop: the side of the wall, if any.
touch(p, s) ==
    IF colliderect(s, inflate_2_0(rect(p))) /\ p.y + PlayerHeight > s.y + 5
    THEN IF centerx(rect(p)) < s.x THEN 1
         ELSE IF centerx(rect(p)) > s.x + s.w THEN -1
         ELSE 0
    ELSE 0

\* The wall direction the loop ends with (the last touching platform wins).
RECURSIVE wall_from(_, _, _, _)
wall_from(p, plats, i, wd) ==
    IF i > Len(plats) THEN wd
    ELSE wall_from(p, plats, i + 1, IF touch(p, plats[i]) # 0 THEN touch(p, plats[i]) ELSE wd)

\* set_wall leaving the stick timer alone on a fresh contact.
set_wall_M(p, pr, wd) == [p EXCEPT !.on_wall = (wd # 0), !.wall_direction = wd]

\* Player.check_wall_contact
set_wall(p, pr, wd) ==
    [p EXCEPT !.on_wall = (wd # 0),
              !.wall_direction = wd,
              !.wall_stick_timer = IF wd # 0 /\ ~p.on_wall THEN pr.wall_stick_time
                                   ELSE p.wall_stick_timer]

\* check_wall_contact looking for walls whatever has_wall_slide says.
check_wall_contact_M(p, pr, plats) == set_wall(p, pr, wall_from(p, plats, 1, 0))

check_wall_contact(p, pr, plats) ==
    set_wall(p, pr, IF pr.has_wall_slide THEN wall_from(p, plats, 1, 0) ELSE 0)

\* ------------------------------------------------------------------ gravity

\* wall_sliding without the test that the actor is falling.
wall_sliding_M(p, pr) == p.on_wall /\ pr.has_wall_slide

\* apply_gravity takes the wall-slide branch.
wall_sliding(p, pr) == p.on_wall /\ pr.has_wall_slide /\ p.vy > 0

\* apply_gravity, the gravity of this tick: falling_gravity when moving down.
current_gravity(p, pr) == IF p.vy > 0 THEN pr.falling_gravity ELSE pr.gravity

\* The clamp to max_fall_speed is missing.
clamp_fall_M(vy, pr) == vy

\* apply_gravity, the clamp to max_fall_speed.
clamp_fall(vy, pr) == IF vy > pr.max_fall_speed THEN pr.max_fall_speed ELSE vy

\* apply_gravity skipped while a dash is active.
apply_gravity_M(p, pr) ==
    IF p.dash_active THEN p
    ELSE IF wall_sliding(p, pr)
    THEN [p EXCEPT !.vy = Min(p.vy, pr.wall_slide_speed)]
    ELSE [p EXCEPT !.vy = clamp_fall(p.vy + current_gravity(p, pr), pr)]

\* Player.apply_gravity
apply_gravity(p, pr) ==
    IF wall_sliding(p, pr)
    THEN [p EXCEPT !.vy = Min(p.vy, pr.wall_slide_speed)]
    ELSE [p EXCEPT !.vy = clamp_fall(p.vy + current_gravity(p, pr), pr)]

\* ------------------------------------------------------------------ jump

KnownStyles == {"smb", "celeste", "npp"}

\* jump, the wall-jump branch is taken.
wall_jump_taken(p, pr) == pr.has_wall_jump /\ p.on_wall /\ p.jump_buffer_timer > 0

\* The smb kick at run_speed instead of 1.2 run_speed.
wall_jump_smb_M(p, pr) ==
    [p EXCEPT !.vy = -pr.jump_force,
              !.vx = -p.wall_direction * pr.run_speed]

\* jump, style "smb".
wall_jump_smb(p, pr) ==
    [p EXCEPT !.vy = -pr.jump_force,
              !.vx = -p.wall_direction * Mul(pr.run_speed, 1200)]

\* jump, style "celeste": the kick depends on the stored input direction.
celeste_kick(p, pr) ==
    IF p.last_input_direction = -p.wall_direction
    THEN -p.wall_direction * pr.run_speed
    ELSE IF p.last_input_direction = p.wall_direction
    THEN p.wall_direction * Mul(pr.walk_speed, 300)
    ELSE -p.wall_direction * Mul(pr.walk_speed, 600)

wall_jump_celeste(p, pr) ==
    [p EXCEPT !.vy = -pr.jump_force, !.vx = celeste_kick(p, pr)]

\* The npp kick at walk_speed whatever the momentum.
wall_jump_npp_M(p, pr) ==
    [p EXCEPT !.vy = -Mul(pr.jump_force, 900),
              !.vx = -p.wall_direction * Mul(pr.walk_speed, 1100)]

\* jump, style "npp".
wall_jump_npp(p, pr) ==
    [p EXCEPT !.vy = -Mul(pr.jump_force, 900),
              !.vx = -p.wall_direction * Mul(Max(Abs(p.vx), pr.walk_speed), 1100)]

\* jump, the wall-jump branch: the style's impulse (none for an unknown
\* style), then the buffer and on_wall are cleared.
wall_impulse(p, pr) ==
    IF pr.wall_jump_style = "smb" THEN wall_jump_smb(p, pr)
    ELSE IF pr.wall_jump_style = "celeste" THEN wall_jump_celeste(p, pr)
    ELSE IF pr.wall_jump_style = "npp" THEN wall_jump_npp(p, pr)
    ELSE p

\* clear_request taking the actor off the ground and closing the coyote window.
clear_request_M(p) ==
    [p EXCEPT !.jump_buffer_timer = 0, !.on_wall = FALSE, !.on_ground = FALSE,
              !.air_timer = p.air_timer + 1]

clear_request(p) == [p EXCEPT !.jump_buffer_timer = 0, !.on_wall = FALSE]

wall_jump(p, pr) == clear_request(wall_impulse(p, pr))

\* can_jump with the coyote window one tick too long.
can_jump_M(p, pr) == p.on_ground \/ p.air_timer <= pr.coyote_time

\* jump, eligibility of the regular jump and of the double jump.
can_jump(p, pr) == p.on_ground \/ p.air_timer < pr.coyote_time

\* can_double_jump without the has_double_jumped test.
can_double_jump_M(p, pr) ==
    pr.has_double_jump /\ ~p.on_ground /\ ~can_jump(p, pr)

can_double_jump(p, pr) ==
    pr.has_double_jump /\ ~p.on_ground /\ ~p.has_double_jumped /\ ~can_jump(p, pr)

\* jump, the speed ratio divides by run_speed: ZeroDivisionError when it is 0.
jump_faults(p, pr) ==
    /\ ~wall_jump_taken(p, pr)
    /\ p.jump_buffer_timer > 0 /\ (can_jump(p, pr) \/ can_double_jump(p, pr))
    /\ pr.jump_force_run_bonus > 0 /\ pr.run_speed = 0

\* The run bonus scaled by walk_speed instead of run_speed.
run_bonus_M(p, pr) ==
    IF pr.jump_force_run_bonus > 0
    THEN Mul(pr.jump_force_run_bonus, TruncDiv(Abs(p.vx) * Scale, pr.walk_speed))
    ELSE 0

\* jump, the strength: base force, run bonus, dash bonus.
run_bonus(p, pr) ==
    IF pr.jump_force_run_bonus > 0
    THEN Mul(pr.jump_force_run_bonus, TruncDiv(Abs(p.vx) * Scale, pr.run_speed))
    ELSE 0

jump_strength(p, pr) ==
    IF p.dash_active THEN Mul(pr.jump_force + run_bonus(p, pr), 1200)
    ELSE pr.jump_force + run_bonus(p, pr)

\* regular_jump displacing the actor in the tick of the jump.
regular_jump_M(p, pr) ==
    [p EXCEPT !.vy = -jump_strength(p, pr),
              !.y = MoveInt(p.y, -jump_strength(p, pr)),
              !.jump_buffer_timer = 0,
              !.on_ground = FALSE,
              !.air_timer = pr.coyote_time,
              !.has_double_jumped = IF can_double_jump(p, pr) THEN TRUE
                                    ELSE p.has_double_jumped]

\* jump, the regular or double jump.
regular_jump(p, pr) ==
    [p EXCEPT !.vy = -jump_strength(p, pr),
              !.jump_buffer_timer = 0,
              !.on_ground = FALSE,
              !.air_timer = pr.coyote_time,
              !.has_double_jumped = IF can_double_jump(p, pr) THEN TRUE
                                    ELSE p.has_double_jumped]

\* jump_kind trying the regular jump before the wall jump.
jump_kind_M(p, pr) ==
    IF p.jump_buffer_timer > 0 /\ can_jump(p, pr) THEN "ground"
    ELSE IF wall_jump_taken(p, pr) THEN "wall"
    ELSE IF p.jump_buffer_timer > 0 /\ can_double_jump(p, pr) THEN "double"
    ELSE "none"

\* Which branch Player.jump takes: "wall", "ground" (grounded or coyote),
\* "double" or "none".
jump_kind(p, pr) ==
    IF wall_jump_taken(p, pr) THEN "wall"
    ELSE IF p.jump_buffer_timer > 0 /\ can_jump(p, pr) THEN "ground"
    ELSE IF p.jump_buffer_timer > 0 /\ can_double_jump(p, pr) THEN "double"
    ELSE "none"

\* Player.jump
jump(p, pr) ==
    IF jump_kind(p, pr) = "wall" THEN wall_jump(p, pr)
    ELSE IF jump_kind(p, pr) \in {"ground", "double"} THEN regular_jump(p, pr)
    ELSE p

\* ------------------------------------------------------------------ update

\* reset keeping the velocity.
reset_M(p) ==
    [p EXCEPT !.x = p.original_pos[1], !.y = p.original_pos[2],
              !.dash_active = FALSE, !.has_double_jumped = FALSE]

\* Player.reset
reset(p) ==
    [p EXCEPT !.x = p.original_pos[1], !.y = p.original_pos[2],
              !.vx = 0, !.vy = 0,
              !.dash_active = FALSE, !.has_double_jumped = FALSE]

\* update, hazard check: pygame.sprite.spritecollide(self, hazards, False).
hits_hazard(p, haz) == \E i \in 1..Len(haz) : colliderect(haz[i], rect(p))

\* update, fell off the world.
fell_off(p) == p.y > SCREEN_HEIGHT

\* update, the horizontal move.
move_x(p) == [p EXCEPT !.x = MoveInt(p.x, p.vx)]

\* update, from the state after get_input to the state after wall detection.
horizontal_pass(p, pr, plats) ==
    check_wall_contact(check_collisions(move_x(p), plats, "horizontal"), pr, plats)

\* update, the steps up to and including wall detection.
after_wall_contact(p, pr, in, plats) == horizontal_pass(get_input(p, pr, in), pr, plats)

\* update, the vertical move.
move_y(p) == [p EXCEPT !.on_ground = FALSE, !.y = MoveInt(p.y, p.vy)]

coyote_timer(p) == IF ~p.on_ground THEN [p EXCEPT !.air_timer = p.air_timer + 1] ELSE p

\* update, from the state after wall detection to the state before the jump:
\* gravity, vertical pass and coyote timer.
vertical_pass(p, pr, plats) ==
    coyote_timer(check_collisions(move_y(apply_gravity(p, pr)), plats, "vertical"))

\* update, the steps up to the jump.
before_jump(p, pr, in, plats) ==
    vertical_pass(after_wall_contact(p, pr, in, plats), pr, plats)

\* update, the terminal checks after the jump.
hazard_check(p, haz) == IF hits_hazard(p, haz) THEN reset(p) ELSE p

fall_check(p) == IF fell_off(p) THEN reset(p) ELSE p

\* update, one of the terminal checks calls Player.reset.
resets(p, haz) == hits_hazard(p, haz) \/ fell_off(hazard_check(p, haz))

terminal_checks(p, haz) == fall_check(hazard_check(p, haz))

\* Player.update (the kinematic part; drawing and particles read only).
update(p, pr, in, plats, haz) ==
    terminal_checks(jump(before_jump(p, pr, in, plats), pr), haz)

\* switch_profile leaving an active dash running.
switch_profile_M(p) == [p EXCEPT !.has_double_jumped = FALSE]

\* Player.switch_profile
switch_profile(p) == [p EXCEPT !.has_double_jumped = FALSE, !.dash_active = FALSE]

\* ------------------------------------------------------------------ actions

NoInput == Input(0, FALSE, FALSE, FALSE)

\* What the last step did, recorded for the properties below:
\*   kind      "init", "tick", "reset", "switch", or for a profile edit
\*             "step", "drag", "llm", "reset_physics"; "async" for a tick
\*             during which the LLM thread applied its result
\*   input     the device state of the last tick
\*   dashing   get_input took the dash branch (and returned early)
\*   dash_age  the ticks the running dash has taken the dash branch, this
\*             one included (0 when not dashing)
\*   move_dir  get_input's move_dir after the wall-stick rule (0 when dashing)
\*   vx_input  velocity.x after get_input
\*   vy_grav   velocity.y after apply_gravity
\*   sliding   apply_gravity took the wall-slide branch
\*   landed    on_ground after the vertical pass
\*   air       air_timer at the jump step
\*   jumped    the branch Player.jump took
\*   vx_jump, vy_jump  the velocity after Player.jump
\*   was_reset Player.reset ran in the terminal checks
\*   fault     the tick raised ZeroDivisionError in Player.jump
\*   streak    at the jump step: consecutive airborne ticks since the actor
\*             was last grounded, no jump having fired since (0: grounded;
\*             -1: never grounded, or a jump fired since)
\*   doubles   double jumps since has_double_jumped was last cleared
\*             (landing, reset, profile switch)
\*   impulses  ground/coyote and double jumps since the last landing, reset
\*             or profile switch (a jump off the ground counts)
\*   all_impulses  jumps of any kind, wall jumps included, since the last
\*             landing (the three counters stop at 3)
\*   edits     live parameter edits applied to the profile so far
\*   restored  the number of fields the last reset_physics changed
\*   cleared   has_double_jumped and dash_active as the reset key or the
\*             profile switch of the last step found them
\*   press_age at the jump step: ticks since get_input last registered a
\*             press edge of the jump key (0: this tick), no jump having
\*             fired and no dash tick having passed since (-1: none)
\*   hold_arms press edges get_input registered while the jump key has been
\*             held without a break (0 when the key is up; stops at 2)
\*   arm_impulses  jumps of any kind fired since get_input last registered
\*             a press edge (stops at 2)
\*   grounds   ground/coyote jumps fired since the actor last landed, one
\*             fired on the landing tick included (stops at 2)
\*   since_ground  at the jump step: ticks since the actor was last
\*             grounded at a jump step (0: grounded; -1: never; stops at 9)
\*   walled, live  on_wall and jump_buffer_timer > 0 at the jump step
\*   target    get_input's target_speed (0 when dashing)
\*   release_age  ticks processed by get_input's run-button code since the
\*             run key was last down (0: down this tick; -1: never down;
\*             dash ticks do not count; stops at 20)
\*   away_age  ticks on which get_input's wall-stick rule saw input away
\*             from the wall since wall_stick_timer was last set to
\*             wall_stick_time (-1: never set; stops at 20)
\*   embedded_h, embedded_v  the horizontal, the vertical collision pass
\*             left an overlap or a velocity unresolved
\*   land_cleared  the actor landed in this tick with has_double_jumped set
\*   since_reset  ticks since a terminal check last called Player.reset
\*             (0: in this tick; counted from construction before the
\*             first; stops at 99)
\*   contact   what check_wall_contact found: "none", "lost" (no contact,
\*             on_wall was set), "kept" (contact, on_wall was set already),
\*             "regrab" (contact, on_wall was clear because the jump step of
\*             the tick before fired a wall jump) or "fresh"
NoObs ==
    [kind |-> "init", input |-> NoInput, dashing |-> FALSE, dash_age |-> 0,
     move_dir |-> 0,
     vx_input |-> 0,
     vy_grav |-> 0, sliding |-> FALSE, landed |-> FALSE, air |-> 0,
     jumped |-> "none", vx_jump |-> 0, vy_jump |-> 0, was_reset |-> FALSE, fault |-> FALSE, streak |-> -1,
     doubles |-> 0, impulses |-> 0, all_impulses |-> 0,
     press_age |-> -1, edits |-> 0, restored |-> 0, cleared |-> <<FALSE, FALSE>>,
     hold_arms |-> 0, arm_impulses |-> 0, grounds |-> 0, since_ground |-> -1,
     walled |-> FALSE, live |-> FALSE, target |-> 0, release_age |-> -1,
     away_age |-> -1, embedded_h |-> FALSE, embedded_v |-> FALSE,
     land_cleared |-> FALSE, since_reset |-> 0, contact |-> "none"]

\* dashing, started: the dash branch was taken, a dash was activated;
\* pressed: the jump key is held and the latch is clear;
\* sticky, away: get_input found the actor on a wall and airborne, the
\* direction key pointing away from the wall;
\* embedded_h, embedded_v: the outcome of the two collision passes;
\* doubled: has_double_jumped when the frame began;
\* pi, pw, pj, pz: the player after get_input, after check_wall_contact,
\* before the jump step and after it.
observation(o, in, dashing, started, pressed, sticky, away, move_dir, embedded_h, embedded_v, doubled, pi, pw, pj, pz, pr, haz) ==
    [kind |-> "tick", input |-> in,
     dashing |-> dashing,
     dash_age |-> IF ~dashing THEN 0 ELSE IF started THEN 1 ELSE o.dash_age + 1,
     move_dir |-> IF dashing THEN 0 ELSE move_dir,
     vx_input |-> pi.vx,
     vy_grav |-> apply_gravity(pw, pr).vy,
     sliding |-> wall_sliding(pw, pr),
     landed |-> pj.on_ground,
     air |-> pj.air_timer,
     jumped |-> jump_kind(pj, pr),
     vx_jump |-> pz.vx, vy_jump |-> pz.vy,
     was_reset |-> resets(pz, haz),
     doubles |-> IF resets(pz, haz) \/ pj.on_ground THEN 0
                 ELSE Min(3, o.doubles + (IF jump_kind(pj, pr) = "double" THEN 1 ELSE 0)),
     impulses |-> IF resets(pz, haz) THEN 0
                  ELSE Min(3, (IF pj.on_ground THEN 0 ELSE o.impulses)
                              + (IF jump_kind(pj, pr) \in {"ground", "double"} THEN 1 ELSE 0)),
     all_impulses |-> Min(3, (IF pj.on_ground THEN 0 ELSE o.all_impulses)
                             + (IF jump_kind(pj, pr) # "none" THEN 1 ELSE 0)),
     fault |-> FALSE,
     streak |-> IF pj.on_ground THEN 0
                ELSE IF o.streak >= 0 /\ o.jumped = "none" THEN o.streak + 1
                ELSE -1,
     press_age |-> IF ~dashing /\ pressed THEN 0
                   ELSE IF o.press_age >= 0 /\ o.jumped = "none" /\ ~dashing
                   THEN o.press_age + 1
                   ELSE -1,
     edits |-> o.edits, restored |-> o.restored, cleared |-> <<FALSE, FALSE>>,
     hold_arms |-> IF ~in.jump THEN 0
                   ELSE Min(2, o.hold_arms + (IF ~dashing /\ pressed THEN 1 ELSE 0)),
     arm_impulses |-> Min(2, (IF ~dashing /\ pressed THEN 0 ELSE o.arm_impulses)
                             + (IF jump_kind(pj, pr) # "none" THEN 1 ELSE 0)),
     grounds |-> Min(2, (IF pj.on_ground THEN 0 ELSE o.grounds)
                        + (IF jump_kind(pj, pr) = "ground" THEN 1 ELSE 0)),
     since_ground |-> IF pj.on_ground THEN 0
                      ELSE IF o.since_ground < 0 THEN -1
                      ELSE Min(9, o.since_ground + 1),
     walled |-> pj.on_wall, live |-> pj.jump_buffer_timer > 0,
     target |-> IF dashing THEN 0 ELSE target_speed(pi, pr, move_dir),
     release_age |-> IF dashing THEN o.release_age
                     ELSE IF in.run THEN 0
                     ELSE IF o.release_age < 0 THEN -1
                     ELSE Min(20, o.release_age + 1),
     away_age |-> IF pw.on_wall /\ ~pi.on_wall THEN 0
                  ELSE IF dashing \/ ~sticky THEN o.away_age
                  ELSE IF ~away THEN 0
                  ELSE IF o.away_age < 0 THEN -1
                  ELSE Min(20, o.away_age + 1),
     embedded_h |-> embedded_h, embedded_v |-> embedded_v,
     land_cleared |-> pj.on_ground /\ doubled,
     since_reset |-> IF resets(pz, haz) THEN 0 ELSE Min(99, o.since_reset + 1),
     contact |-> IF ~pw.on_wall THEN (IF pi.on_wall THEN "lost" ELSE "none")
                 ELSE IF pi.on_wall THEN "kept"
                 ELSE IF o.kind = "tick" /\ o.jumped = "wall" THEN "regrab"
                 ELSE "fresh"]

\* Player.update staged as in the source, each intermediate state computed
\* once: pi after get_input, pw after wall detection, pj before the jump
\* step, pz after it.  A ZeroDivisionError in the jump step ends the program
\* with the state the frame had reached.
AfterJump(in, pi, pw, pj, pz) ==
    /\ player' = terminal_checks(pz, hazards)
    /\ obs' = observation(obs, in, start_dash(player, profile, in).dash_active,
                          dash_starts(player, profile, in), jump_edge(player, in),
                          on_wall_airborne(player), away_input(player, in.dir),
                          stick_dir(player, in.dir),
                          unresolved(move_x(pi), pw, platforms, "horizontal"),
                          unresolved(move_y(apply_gravity(pw, profile)), pj, platforms,
                                     "vertical"),
                          player.has_double_jumped,
                          pi, pw, pj, pz, profile, hazards)

BeforeJump(in, pi, pw, pj) ==
    IF jump_faults(pj, profile)
    THEN /\ player' = pj
         /\ obs' = [obs EXCEPT !.kind = "tick", !.input = in, !.fault = TRUE]
    ELSE AfterJump(in, pi, pw, pj, jump(pj, profile))

AfterWall(in, pi, pw) == BeforeJump(in, pi, pw, vertical_pass(pw, profile, platforms))

AfterInput(in, pi) == AfterWall(in, pi, horizontal_pass(pi, profile, platforms))

\* One frame of the main loop: Player.update with the device state in.
Tick(in) ==
    /\ ~obs.fault
    /\ AfterInput(in, get_input(player, profile, in))
    /\ UNCHANGED <<profile, inactive, platforms, hazards>>

\* The reset key: Player.reset between two frames.
Reset ==
    /\ ~obs.fault
    /\ player' = reset(player)
    /\ obs' = [obs EXCEPT !.kind = "reset", !.doubles = 0, !.impulses = 0,
                           !.cleared = <<player.has_double_jumped, player.dash_active>>]
    /\ UNCHANGED <<profile, inactive, platforms, hazards, ticks>>

\* selected handing out the profile as it was constructed.
selected_M(pr, others, new) == new

\* self.profile = new_profile assigns a reference: new names one of the
\* module's CharacterProfile objects, and the object selected is that object
\* as the edits made to it so far have left it (as constructed if it was
\* never selected).
selected(pr, others, new) ==
    IF new.name = pr.name THEN pr
    ELSE IF new.name \in DOMAIN others THEN others[new.name]
    ELSE new

\* The objects not selected after the assignment: the one that was selected
\* stays as it is.
deselected(pr, others, new) ==
    [n \in (DOMAIN others \cup {pr.name}) \ {new.name} |->
        IF n = pr.name THEN pr ELSE others[n]]

\* A character key: Player.switch_profile(new) between two frames.
SwitchProfile(new) ==
    /\ ~obs.fault
    /\ player' = switch_profile(player)
    /\ profile' = selected(profile, inactive, new)
    /\ inactive' = deselected(profile, inactive, new)
    /\ obs' = [obs EXCEPT !.kind = "switch", !.doubles = 0, !.impulses = 0,
                           !.cleared = <<player.has_double_jumped, player.dash_active>>]
    /\ UNCHANGED <<platforms, hazards, ticks>>

\* The control panel steps the slider of parameter name.
AdjustByStep(name, direction) ==
    /\ ~obs.fault
    /\ profile' = adjust_by_step(profile, name, direction)
    /\ obs' = [obs EXCEPT !.kind = "step", !.edits = obs.edits + 1]
    /\ UNCHANGED <<player, inactive, platforms, hazards, ticks>>

\* The mouse clicks or drags the slider of parameter name.
UpdateVal(name, offset) ==
    /\ ~obs.fault
    /\ profile' = update_val(profile, name, offset)
    /\ obs' = [obs EXCEPT !.kind = "drag", !.edits = obs.edits + 1]
    /\ UNCHANGED <<player, inactive, platforms, hazards, ticks>>

\* The LLM callback applies a parsed result to the profile.
ApplyPhysics(physics_dict) ==
    /\ ~obs.fault
    /\ profile' = apply_physics(profile, physics_dict)
    /\ obs' = [obs EXCEPT !.kind = "llm", !.edits = obs.edits + 1]
    /\ UNCHANGED <<player, inactive, platforms, hazards, ticks>>

\* A frame of the main loop while the thread process_description started runs
\* its callback: apply_physics sets the attributes of the profile one by one
\* in the background thread, Player.update reads them in the main thread.
\* The steps up to wall detection read the profile with the first a keys
\* set, gravity and the vertical pass the first b, the jump step the first c;
\* the thread has set them all when the frame ends.
AsyncJump(in, physics_dict, pj, prc) ==
    /\ player' = (IF jump_faults(pj, prc) THEN pj ELSE terminal_checks(jump(pj, prc), hazards))
    /\ profile' = apply_physics(profile, physics_dict)
    /\ obs' = [obs EXCEPT !.kind = "async", !.input = in, !.edits = obs.edits + 1,
                           !.fault = jump_faults(pj, prc)]

AsyncGravity(in, physics_dict, pw, prb, prc) ==
    AsyncJump(in, physics_dict, vertical_pass(pw, prb, platforms), prc)

ProcessAsync(in, physics_dict, a, b, c) ==
    /\ ~obs.fault
    /\ "error" \notin DOMAIN physics_dict
    /\ a <= b /\ b <= c
    /\ AsyncGravity(in, physics_dict,
                    after_wall_contact(player, apply_physics_upto(profile, physics_dict, a),
                                       in, platforms),
                    apply_physics_upto(profile, physics_dict, b),
                    apply_physics_upto(profile, physics_dict, c))
    /\ UNCHANGED <<inactive, platforms, hazards>>

\* The reset button of the control panel (or R1+Triangle).
ResetPhysics ==
    /\ ~obs.fault
    /\ profile' = reset_physics(profile)
    /\ obs' = [obs EXCEPT !.kind = "reset_physics",
                           !.restored = Cardinality({k \in DOMAIN profile :
                                                       reset_physics(profile)[k] # profile[k]})]
    /\ UNCHANGED <<player, inactive, platforms, hazards, ticks>>

\* ------------------------------------------------------------------ scenarios

\* Frames explored from the initial state of a scenario.
MaxTicks == 22

\* No platforms, no hazards.
EmptyLevel == <<>>

\* main(): Player((200, SCREEN_HEIGHT - 200), ...).
SpawnMain == <<200, SCREEN_HEIGHT - 200>>

RealProfiles == {MARIO, SUPER_MEAT_BOY, ZELDA_LINK, MADELINE, N_NINJA}

\* The state main() constructs before its loop: one of the profiles, the
\* Player at one of the spawn positions, the level's platforms and hazards.
Start(profiles, spawns, plats, haz) ==
    /\ profile \in profiles
    /\ inactive = [n \in {} |-> MARIO]
    /\ player \in {NewPlayer(pos) : pos \in spawns}
    /\ platforms = plats
    /\ hazards = haz
    /\ obs = NoObs
    /\ ticks = 0

\* A frame with the device state in, the n-th at most.
FrameUpTo(n, in) == ticks < n /\ ticks' = ticks + 1 /\ Tick(in)

Frame(in) == FrameUpTo(MaxTicks, in)

\* Free fall: each shipped profile, constructed at rest over an empty level;
\* the run and dash keys are free, the move and jump keys are never pressed.
SpecFall ==
    /\ Start(RealProfiles, {SpawnMain}, EmptyLevel, <<>>)
    /\ [][\E r \in BOOLEAN, x \in BOOLEAN : Frame(Input(0, r, FALSE, x))]_vars

\* C10: Terminal velocity. In free fall from rest the gravity step adds
\* gravity while velocity.y <= 0 and falling_gravity while velocity.y > 0,
\* clamped to max_fall_speed; velocity.y never exceeds max_fall_speed and
\* stays there once reached; with gravity 0.6, falling_gravity 1.0 and
\* max_fall_speed 12.0 (Mario) velocity.y is exactly 12.0 after 20 ticks.
C10_TerminalVelocity ==
    [][(obs'.kind = "tick" /\ ~obs'.was_reset) =>
         /\ ~obs'.sliding /\ obs'.jumped = "none"
         /\ player.vy <= 0 =>
              obs'.vy_grav = Min(player.vy + profile.gravity, profile.max_fall_speed)
         /\ player.vy > 0 =>
              obs'.vy_grav = Min(player.vy + profile.falling_gravity, profile.max_fall_speed)
         /\ player'.vy = obs'.vy_grav
         /\ player'.vy >= player.vy
         /\ player'.vy <= profile.max_fall_speed
         /\ (player.vy = profile.max_fall_speed => player'.vy = profile.max_fall_speed)
         /\ (profile = MARIO /\ ticks' = 20 => player'.vy = 12 * Scale)]_vars

\* Mario has fallen for 20 ticks and moves at 12.0, after having accelerated
\* with both gravities.
C10_Witness ==
    /\ profile = MARIO /\ ticks = 20 /\ obs.kind = "tick"
    /\ player.vy = 12 * Scale /\ player.y > SpawnMain[2] + 100

\* Frames explored in the running scenario.
MaxRunTicks == 8

\* A floor with a wall standing on its right part and a ledge on the left.
RunLevel == <<Rect(0, 100, 120, 20), Rect(90, 0, 30, 100)>>

\* Standing height on the floor of RunLevel, two pixels left of the wall.
RunSpawn == <<58, 40>>

\* Mario with the acceleration slider of the control panel moved to 1.5.
TunedMario == [MARIO EXCEPT !.acceleration = (3 * Scale) \div 2]

\* Running: shipped profiles and the tuned one on RunLevel; move, run and
\* dash keys free, the jump key never pressed.
SpecRun ==
    /\ Start({MARIO, TunedMario, SUPER_MEAT_BOY, ZELDA_LINK, N_NINJA}, {RunSpawn}, RunLevel, <<>>)
    /\ [][\E d \in {-1, 0, 1}, r \in BOOLEAN, x \in BOOLEAN :
              FrameUpTo(MaxRunTicks, Input(d, r, FALSE, x))]_vars

\* Frames explored in the wall scenarios.
MaxWallTicks == 5

\* A shaft: two tall walls, 50 apart, no floor.
WallLevel == <<Rect(0, -300, 30, 600), Rect(80, -300, 30, 600)>>

\* In the shaft, touching the right wall.
WallSpawn == <<50, 40>>

\* Wall jumps: the two wall-jumping profiles with a known style other than
\* npp, constructed against the right wall; move and jump keys free.
SpecWall ==
    /\ Start({SUPER_MEAT_BOY, MADELINE}, {WallSpawn}, WallLevel, <<>>)
    /\ [][\E d \in {-1, 0, 1}, j \in BOOLEAN :
              FrameUpTo(MaxWallTicks, Input(d, FALSE, j, FALSE))]_vars

\* C8: Wall jump style "smb". Whenever a wall jump fires for a profile with
\* wall_jump_style = smb, the jump sets velocity.x to
\* -wall_direction * run_speed * 1.2 and velocity.y to -jump_force, whatever
\* direction is held; the frame ends with these velocities.
C8_WallJumpSmb ==
    [][(obs'.kind = "tick" /\ ~obs'.fault /\ obs'.jumped = "wall"
        /\ profile.wall_jump_style = "smb") =>
         /\ player'.wall_direction \in {-1, 1}
         /\ obs'.vx_jump = -player'.wall_direction * Mul(profile.run_speed, 1200)
         /\ obs'.vy_jump = -profile.jump_force
         /\ ~obs'.was_reset => (player'.vx = obs'.vx_jump /\ player'.vy = obs'.vy_jump)]_vars

\* Meat Boy has just wall-jumped off the left wall while holding toward it
\* and flies right at 12.0.
C8_Witness ==
    /\ profile = SUPER_MEAT_BOY /\ obs.kind = "tick" /\ obs.jumped = "wall"
    /\ player.wall_direction = -1 /\ obs.input.dir = -1
    /\ player.vx = 12 * Scale /\ player.vy = -SUPER_MEAT_BOY.jump_force

\* Frames explored in the dash-into-wall scenario.
MaxKickTicks == 6

\* In the shaft, 10 left of the right wall.
KickSpawn == <<40, 40>>

\* Madeline constructed in mid-shaft; right and neutral, jump and dash keys
\* free.
SpecKick ==
    /\ Start({MADELINE}, {KickSpawn}, WallLevel, <<>>)
    /\ [][\E d \in {0, 1}, j \in BOOLEAN, x \in BOOLEAN :
              FrameUpTo(MaxKickTicks, Input(d, FALSE, j, x))]_vars

\* C9: Wall jump style "celeste". Whenever a wall jump fires, the jump sets
\* velocity.y to -jump_force and velocity.x by the direction held on that
\* tick: away from the wall -wall_direction * run_speed, toward the wall
\* wall_direction * walk_speed * 0.3, neutral -wall_direction * walk_speed * 0.6.
C9_WallJumpCeleste ==
    [][(obs'.kind = "tick" /\ ~obs'.fault /\ obs'.jumped = "wall"
        /\ profile.wall_jump_style = "celeste") =>
         /\ obs'.vy_jump = -profile.jump_force
         /\ obs'.vx_jump =
              IF obs'.input.dir = -player'.wall_direction
              THEN -player'.wall_direction * profile.run_speed
              ELSE IF obs'.input.dir = player'.wall_direction
              THEN player'.wall_direction * Mul(profile.walk_speed, 300)
              ELSE -player'.wall_direction * Mul(profile.walk_speed, 600)]_vars

\* Frames explored in the dash scenario: Link's dash_duration and two more.
MaxDashTicks == 22

\* A floor with a wall on its right part and a low hazard before the wall.
DashLevel == <<Rect(0, 100, 300, 20), Rect(150, 0, 30, 100)>>

DashHazards == <<Rect(110, 95, 10, 5)>>

\* 40 above the floor of DashLevel.
DashSpawn == <<58, 0>>

\* Dashing: the two dashing profiles constructed above the floor; right and
\* neutral and the dash key free, run and jump keys never pressed.
SpecDash ==
    /\ Start({ZELDA_LINK, MADELINE}, {DashSpawn}, DashLevel, DashHazards)
    /\ [][\E d \in {0, 1}, x \in BOOLEAN :
              FrameUpTo(MaxDashTicks, Input(d, FALSE, FALSE, x))]_vars

\* A completed frame in which get_input took the dash branch.
C4_DashTick == obs'.kind = "tick" /\ ~obs'.fault /\ obs'.dashing

C5_DashWindow ==
    [][(obs'.kind = "tick" /\ ~obs'.fault) =>
         /\ dash_starts(player, profile, obs'.input) =>
              /\ obs'.dashing /\ obs'.dash_age = 1
              /\ player'.dash_direction = IF player.facing_right THEN 1 ELSE -1
         /\ obs'.dashing =>
              /\ obs'.vx_input = player'.dash_direction * profile.dash_speed
              /\ obs'.dash_age <= profile.dash_duration
              /\ player'.dash_timer = profile.dash_duration - obs'.dash_age
              /\ (obs'.dash_age = profile.dash_duration => ~player'.dash_active)
              /\ (obs'.dash_age < profile.dash_duration /\ ~obs'.was_reset) =>
                   player'.dash_active
              /\ (obs'.jumped # "wall" /\ ~obs'.was_reset) =>
                   player'.vx \in {obs'.vx_input, 0}
         /\ (obs'.dashing /\ obs'.dash_age > 1) =>
              /\ obs.dashing /\ ~obs.was_reset
              /\ player'.dash_direction = player.dash_direction
         /\ (obs.dashing /\ obs.dash_age < profile.dash_duration /\ ~obs.was_reset) =>
              obs'.dashing
         /\ (~obs'.dashing) =>
              /\ ~dash_starts(player, profile, obs'.input)
              /\ obs'.vx_input = normal_input(player, profile, obs'.input).vx]_vars

\* Link's dash has just taken its 20th and last tick, pressed against the
\* wall since it reached it: the input step forced 12.0 and the collision
\* zeroed it.
C5_Witness ==
    /\ profile = ZELDA_LINK /\ obs.kind = "tick" /\ obs.dashing
    /\ obs.dash_age = ZELDA_LINK.dash_duration /\ ~player.dash_active
    /\ obs.vx_input = ZELDA_LINK.dash_speed /\ player.vx = 0

\* C5 as stated: on each of the dash_duration ticks of the window velocity.x
\* is dash_direction * dash_speed, dash_direction is the facing captured at
\* activation and does not change, the window is dash_duration ticks long,
\* and the tick after it is not a dash tick (the dash key released).
C5_Original ==
    [][(obs'.kind = "tick" /\ ~obs'.fault /\ ~obs'.was_reset) =>
         /\ dash_starts(player, profile, obs'.input) =>
              player'.dash_direction = IF player.facing_right THEN 1 ELSE -1
         /\ obs'.dashing =>
              /\ player'.vx = player'.dash_direction * profile.dash_speed
              /\ obs'.dash_age <= profile.dash_duration
         /\ (obs'.dashing /\ obs'.dash_age > 1) =>
              player'.dash_direction = player.dash_direction
         /\ (obs.dashing /\ obs.dash_age < profile.dash_duration /\ ~obs.was_reset) =>
              obs'.dashing
         /\ (obs.dashing /\ obs.dash_age = profile.dash_duration /\ ~obs'.input.dash) =>
              ~obs'.dashing]_vars

\* Frames explored in the ledge scenario.
MaxJumpTicks == 8

\* A floor ending in a ledge at x = 100 and a tall wall 38 beyond the ledge.
JumpLevel == <<Rect(0, 100, 100, 20), Rect(138, 0, 30, 300)>>

\* Standing height on the floor, 15 before its end.
JumpSpawn == <<85, 40>>

\* Walking off a ledge: Meat Boy, Link and Madeline constructed on the floor
\* of JumpLevel; right and neutral, the jump key and the dash key free.
SpecJump ==
    /\ Start({SUPER_MEAT_BOY, ZELDA_LINK, MADELINE}, {JumpSpawn}, JumpLevel, <<>>)
    /\ [][\E d \in {0, 1}, j \in BOOLEAN, x \in BOOLEAN :
              FrameUpTo(MaxJumpTicks, Input(d, FALSE, j, x))]_vars

\* The jump key goes from released to pressed in this frame.
C1_Press == obs'.input.jump /\ ~obs.input.jump

\* get_input registers a press edge in this frame: no dash is active and the
\* latch of the previous processed frame is clear.
C1_Registered == ~obs'.dashing /\ jump_edge(player, obs'.input)

\* The strength of a regular jump fired outside a dash at the velocity.x the
\* jump step saw.
C1_Strength == profile.jump_force + run_bonus([vx |-> obs'.vx_jump], profile)

\* C1 (as amended): for any profile with jump_buffer >= 1, if the actor was
\* grounded and then leaves the ground without jumping, a jump press edge
\* that input processing registers (no dash active on that tick) on the k-th
\* airborne tick, 1 <= k <= coyote_time - 1, fires a ground/coyote jump with
\* velocity.y = -jump strength, or the wall jump if the profile has one and
\* the actor is on a wall; no ground/coyote jump fires for k >= coyote_time.
C1_CoyoteBoundary ==
    [][(obs'.kind = "tick" /\ ~obs'.fault) =>
         /\ (/\ C1_Registered /\ profile.jump_buffer >= 1
             /\ obs'.streak \in 1..(profile.coyote_time - 1)) =>
              /\ obs'.jumped \in {"ground", "wall"}
              /\ obs'.jumped = "wall" => profile.has_wall_jump
              /\ obs'.jumped = "ground" => obs'.vy_jump = -C1_Strength
         /\ obs'.streak >= profile.coyote_time => obs'.jumped # "ground"]_vars

\* A coyote jump has just fired on the last tick of the window, coyote_time - 1
\* ticks after the actor left the ledge.
C1_Witness ==
    /\ obs.kind = "tick" /\ ~obs.dashing /\ obs.press_age = 0
    /\ obs.streak = profile.coyote_time - 1 /\ obs.jumped = "ground"
    /\ player.vy = -profile.jump_force /\ ~obs.landed

\* C1 as stated: a press edge on the k-th airborne tick fires a
\* ground/coyote jump for 1 <= k <= coyote_time - 1 and fires none for
\* k = coyote_time + 1.
C1_Original ==
    [][(obs'.kind = "tick" /\ ~obs'.fault /\ C1_Press) =>
         /\ obs'.streak \in 1..(profile.coyote_time - 1) => obs'.jumped = "ground"
         /\ obs'.streak = profile.coyote_time + 1 => obs'.jumped # "ground"]_vars

\* Frames explored in the landing scenario.
MaxLandTicks == 17

\* A floor.
LandLevel == <<Rect(0, 100, 300, 20)>>

\* 60 above the floor of LandLevel.
LandSpawn == <<100, -20>>

\* Falling onto a floor: each shipped profile constructed above the floor;
\* the jump key free, no other key pressed.
SpecLand ==
    /\ Start(RealProfiles, {LandSpawn}, LandLevel, <<>>)
    /\ [][\E j \in BOOLEAN : FrameUpTo(MaxLandTicks, Input(0, FALSE, j, FALSE))]_vars

\* A completed frame in which the actor lands, a press edge registered some
\* ticks earlier being the last one, with no jump fired since.
C2_Landing == obs'.kind = "tick" /\ ~obs'.fault /\ obs'.landed /\ obs'.press_age >= 1

\* C2 (as amended): for an airborne actor with no coyote, double-jump or
\* wall-jump eligibility, a single jump press edge registered j ticks before
\* the tick on which the actor lands, no dash tick lying between, fires a
\* jump on the landing tick exactly if j <= jump_buffer - 1: a press
\* jump_buffer - 1 ticks before landing fires, a press jump_buffer or
\* jump_buffer + 1 ticks before landing fires no jump.
C2_JumpBufferBoundary ==
    [][C2_Landing =>
         /\ obs'.press_age <= profile.jump_buffer - 1 =>
              (obs'.jumped = "ground" /\ obs'.vy_jump = -C1_Strength)
         /\ obs'.press_age >= profile.jump_buffer => obs'.jumped = "none"]_vars

\* The actor has just landed and jumped off again on a press made
\* jump_buffer - 1 ticks earlier in mid-air.
C2_Witness ==
    /\ obs.kind = "tick" /\ obs.landed /\ obs.jumped = "ground"
    /\ obs.press_age = profile.jump_buffer - 1 /\ obs.press_age >= 1
    /\ player.vy = -profile.jump_force /\ ~player.on_ground

\* C2 as stated: a press jump_buffer ticks before the landing tick fires a
\* jump on landing, a press jump_buffer + 1 ticks before it fires none.
C2_Original ==
    [][C2_Landing =>
         /\ obs'.press_age = profile.jump_buffer => obs'.jumped # "none"
         /\ obs'.press_age = profile.jump_buffer + 1 => obs'.jumped = "none"]_vars

\* Frames explored in the double-jump scenario.
MaxDoubleTicks == 16

\* A floor, a ceiling 10 above the standing actor's head and a wall between
\* them.
DoubleLevel == <<Rect(0, 100, 300, 20), Rect(0, 0, 300, 30), Rect(110, 30, 30, 70)>>

\* Standing height on the floor, touching the wall.
DoubleSpawn == <<80, 40>>

\* Double jumps: Madeline constructed against the wall under the low
\* ceiling; the jump key free, the reset key and her character key may be
\* pressed between frames.
SpecDouble ==
    /\ Start({MADELINE}, {DoubleSpawn}, DoubleLevel, <<>>)
    /\ [][\/ \E j \in BOOLEAN : FrameUpTo(MaxDoubleTicks, Input(0, FALSE, j, FALSE))
          \/ Reset
          \/ SwitchProfile(MADELINE)]_vars

\* C3 (as amended): for a profile with has_double_jump, has_double_jumped is
\* set only by the double jump and cleared only by landing, by Player.reset
\* and by switch_profile; between two such clearings at most one double jump
\* fires, and with no landing, reset or profile switch in between the
\* ground/coyote and double jumps are at most two velocity impulses however
\* many press edges are issued; wall jumps are not limited.
C3_DoubleJump ==
    [][/\ (player'.has_double_jumped /\ ~player.has_double_jumped) =>
            (obs'.kind = "tick" /\ obs'.jumped = "double")
       /\ (player.has_double_jumped /\ ~player'.has_double_jumped) =>
            \/ obs'.kind = "tick" /\ (obs'.landed \/ obs'.was_reset)
            \/ obs'.kind \in {"reset", "switch"}
       /\ (obs'.kind = "tick" /\ ~obs'.fault /\ obs'.jumped = "double") =>
            /\ profile.has_double_jump /\ ~player.has_double_jumped /\ ~obs'.landed
            /\ obs'.was_reset \/ player'.has_double_jumped
       /\ obs'.doubles <= 1
       /\ obs'.impulses <= 2]_vars

\* Madeline has jumped off the ground, double-jumped, landed and now
\* double-jumped again.
C3_Witness ==
    /\ profile = MADELINE /\ obs.kind = "tick" /\ obs.jumped = "double"
    /\ obs.doubles = 1 /\ obs.impulses = 2 /\ player.has_double_jumped
    /\ ticks >= 12

\* C3 as stated: has_double_jumped is cleared only by landing, and the jumps
\* between two landings are at most two velocity impulses.
C3_Original ==
    [][/\ (player.has_double_jumped /\ ~player'.has_double_jumped) =>
            (obs'.kind = "tick" /\ obs'.landed)
       /\ obs'.all_impulses <= 2]_vars

\* A completed frame of a profile without momentum in which get_input did
\* not take the dash branch.
C6_NonDashTick ==
    /\ ~profile.has_momentum
    /\ obs'.kind = "tick" /\ ~obs'.fault /\ ~obs'.dashing

\* The signed target speed of the frame for the effective move direction.
C6_Target ==
    obs'.move_dir * (IF is_running(player') THEN profile.run_speed ELSE profile.walk_speed)

\* C6 (as amended): for every profile with has_momentum = false, on every
\* non-dash tick the horizontal motion model leaves velocity.x equal to the
\* signed target speed when the effective move direction is nonzero and equal
\* to 0 when it is neutral and the actor is grounded; when it is neutral and
\* the actor is airborne, velocity.x is left unchanged if no_horizontal_drag
\* is set and otherwise moves toward 0 by the air drag 0.2, not past 0.
C6_ZeroTickConvergence ==
    [][C6_NonDashTick =>
         /\ obs'.move_dir # 0 => obs'.vx_input = C6_Target
         /\ (obs'.move_dir = 0 /\ player.on_ground) => obs'.vx_input = 0
         /\ (obs'.move_dir = 0 /\ ~player.on_ground /\ profile.no_horizontal_drag) =>
              obs'.vx_input = player.vx
         /\ (obs'.move_dir = 0 /\ ~player.on_ground /\ ~profile.no_horizontal_drag) =>
              /\ Abs(obs'.vx_input) = Max(Abs(player.vx) - air_drag, 0)
              /\ obs'.vx_input * player.vx >= 0]_vars

\* Meat Boy released the move keys on an airborne frame and keeps run speed;
\* Link did so and lost only the air drag.
C6_Witness ==
    /\ obs.kind = "tick" /\ ~obs.dashing /\ obs.move_dir = 0 /\ obs.input.dir = 0
    /\ \/ profile = SUPER_MEAT_BOY /\ obs.vx_input = SUPER_MEAT_BOY.run_speed
       \/ profile = ZELDA_LINK /\ obs.vx_input = ZELDA_LINK.walk_speed - air_drag

\* C6 as stated: velocity.x is the signed target speed, or 0 when the move
\* direction is neutral, grounded or airborne.
C6_Original ==
    [][C6_NonDashTick =>
         /\ obs'.move_dir # 0 => obs'.vx_input = C6_Target
         /\ obs'.move_dir = 0 => obs'.vx_input = 0]_vars

\* A completed frame of a momentum profile in which get_input did not take
\* the dash branch and the effective move direction is nonzero.
C7_MomentumTick ==
    /\ profile.has_momentum
    /\ obs'.kind = "tick" /\ ~obs'.fault /\ ~obs'.dashing /\ obs'.move_dir # 0

C7_Target ==
    obs'.move_dir * (IF is_running(player') THEN profile.run_speed ELSE profile.walk_speed)

\* The rate get_input used in the frame.
C7_Rate ==
    IF player'.is_skidding THEN profile.skid_deceleration
    ELSE IF player.on_ground THEN profile.acceleration
    ELSE Mul(profile.acceleration, profile.air_acceleration_multiplier)

\* C7 (as amended): for every profile with has_momentum = true (and
\* non-negative acceleration rates), on every non-dash tick with a nonzero
\* effective move direction the input step moves velocity.x toward the
\* target speed by the frame's rate, never past the target, and leaves it at
\* the target once there; the tick ends with that value unless a horizontal
\* collision zeroes velocity.x (or a wall jump or a reset replaces it), so the
\* approach is monotone only between collisions.
C7_MomentumConvergence ==
    [][C7_MomentumTick =>
         /\ Abs(C7_Target - obs'.vx_input) = Max(Abs(C7_Target - player.vx) - C7_Rate, 0)
         /\ (obs'.vx_input - player.vx) * (C7_Target - player.vx) >= 0
         /\ (C7_Target - obs'.vx_input) * (C7_Target - player.vx) >= 0
         /\ (player.vx = C7_Target => obs'.vx_input = C7_Target)
         /\ (obs'.jumped # "wall" /\ ~obs'.was_reset) =>
              player'.vx \in {obs'.vx_input, 0}]_vars

\* The tuned Mario reached walk speed through the clamp (1.5 + 1.05 + 1.5
\* would pass 4.0) and holds it; the shipped Mario is part-way there.
C7_Witness ==
    /\ obs.kind = "tick" /\ obs.move_dir = 1 /\ ~obs.input.run
    /\ \/ /\ profile = TunedMario /\ ticks >= 5
          /\ obs.vx_input = MARIO.walk_speed /\ player.vx = MARIO.walk_speed
       \/ /\ profile = MARIO /\ ticks >= 5
          /\ player.vx > 0 /\ player.vx < MARIO.walk_speed

\* C7 as stated: over consecutive frames with the same nonzero move
\* direction and the same run state, velocity.x moves toward the target,
\* never passes it, and stays at it once there.
C7_Original ==
    [][(/\ C7_MomentumTick /\ obs.kind = "tick" /\ ~obs.dashing
        /\ obs.move_dir = obs'.move_dir /\ obs.input.dir = obs'.input.dir
        /\ obs.input.run = obs'.input.run /\ is_running(player) = is_running(player')
        /\ obs'.jumped = "none" /\ ~obs'.was_reset) =>
         /\ (player'.vx - player.vx) * (C7_Target - player.vx) >= 0
         /\ (C7_Target - player'.vx) * (C7_Target - player.vx) >= 0
         /\ (player.vx = C7_Target => player'.vx = C7_Target)]_vars

\* Frames explored in the running-jump scenario.
MaxBonusTicks == 9

\* A long floor.
BonusLevel == <<Rect(0, 100, 400, 20)>>

\* Standing height on the floor of BonusLevel.
BonusSpawn == <<20, 40>>

\* Running jumps: Mario as shipped and with the acceleration slider at 1.5,
\* constructed on the floor; the run key held, right and neutral and the jump
\* key free.
SpecBonus ==
    /\ Start({MARIO, TunedMario}, {BonusSpawn}, BonusLevel, <<>>)
    /\ [][\E d \in {0, 1}, j \in BOOLEAN :
              FrameUpTo(MaxBonusTicks, Input(d, TRUE, j, FALSE))]_vars

\* A completed frame in which a ground/coyote or double jump fired outside a
\* dash for a profile with a run bonus.
C11_BonusJump ==
    /\ obs'.kind = "tick" /\ ~obs'.fault /\ ~obs'.dashing
    /\ obs'.jumped \in {"ground", "double"}
    /\ profile.jump_force_run_bonus > 0

\* C11: Speed-dependent jump. When a ground/coyote/double jump fires outside
\* a dash with jump_force_run_bonus > 0, velocity.y is
\* -(jump_force + jump_force_run_bonus * |velocity.x| / run_speed), up to the
\* rounding of the three-decimal arithmetic; with jump_force 14.0, bonus 2.0,
\* run_speed 8.0 and |velocity.x| = 8.0 it is exactly -16.0.
C11_SpeedJump ==
    [][C11_BonusJump =>
         /\ obs'.vy_jump <= -profile.jump_force
         /\ Abs((-obs'.vy_jump - profile.jump_force) * profile.run_speed
                - profile.jump_force_run_bonus * Abs(obs'.vx_jump))
              < (profile.jump_force_run_bonus \div Scale + 1) * profile.run_speed
         /\ (/\ profile.jump_force = 14 * Scale
             /\ profile.jump_force_run_bonus = 2 * Scale
             /\ profile.run_speed = 8 * Scale
             /\ Abs(obs'.vx_jump) = 8 * Scale) => obs'.vy_jump = -16 * Scale
         /\ ~obs'.was_reset => player'.vy = obs'.vy_jump]_vars

\* Mario has just jumped off the floor at full run speed and rises at 16.0.
C11_Witness ==
    /\ profile.jump_force = 14 * Scale /\ profile.jump_force_run_bonus = 2 * Scale
    /\ profile.run_speed = 8 * Scale
    /\ obs.kind = "tick" /\ obs.jumped = "ground" /\ obs.vx_jump = 8 * Scale
    /\ player.vx = 8 * Scale /\ player.vy = -16 * Scale

\* Frames explored in the zero-run-speed scenario.
MaxZeroTicks == 4

\* A CharacterProfile constructed with Mario's values and run_speed = 0.
ZeroRunMario == post_init([MARIO EXCEPT !.name = "Zero", !.run_speed = 0])

\* Jumps with run_speed = 0: the profile above constructed on the floor of
\* BonusLevel; move, run and jump keys free.
SpecZero ==
    /\ Start({ZeroRunMario}, {BonusSpawn}, BonusLevel, <<>>)
    /\ [][\E d \in {-1, 0, 1}, r \in BOOLEAN, j \in BOOLEAN :
              FrameUpTo(MaxZeroTicks, Input(d, r, j, FALSE))]_vars

\* C12: a jump with jump_force_run_bonus > 0 and run_speed = 0 does not
\* fault: no frame of such a profile ends in a ZeroDivisionError (the bonus is
\* skipped and the jump completes with velocity.y = -jump_force).
C12_NoFault ==
    (profile.jump_force_run_bonus > 0 /\ profile.run_speed = 0) =>
        /\ ~obs.fault
        /\ (obs.kind = "tick" /\ obs.jumped = "ground" /\ ~obs.dashing) =>
             obs.vy_jump = -profile.jump_force

\* Live edits explored in the tuning scenario.
MaxEdits == 3

\* Mouse offsets on a slider's track: its left end, two fifths, beyond its
\* right end.
DragOffsets == {0, 62, 160}

\* Results _parse_response can return: all five parameters or a single one,
\* each at an end of its range, or an error.
LlmResults ==
    {[k \in K |-> SliderRange[k][e]] :
        K \in {DefaultKeys} \cup {{k} : k \in DefaultKeys}, e \in {1, 2}}
    \cup {[error |-> "Failed to parse response"]}

\* Tuning: Mario or Madeline as constructed; slider steps, slider drags, LLM
\* results and the reset button in any order, at most MaxEdits edits.
SpecTune ==
    /\ Start({MARIO, MADELINE}, {SpawnMain}, EmptyLevel, <<>>)
    /\ [][\/ /\ obs.edits < MaxEdits
             /\ \/ \E name \in DefaultKeys, direction \in {-1, 1} : AdjustByStep(name, direction)
                \/ \E name \in DefaultKeys, offset \in DragOffsets : UpdateVal(name, offset)
                \/ \E physics_dict \in LlmResults : ApplyPhysics(physics_dict)
          \/ ResetPhysics]_vars

\* The profile as it was constructed: the shipped profile of the same name.
C13_Constructed == CHOOSE pr \in RealProfiles : pr.name = profile.name

\* C13: reset_physics round trip. After any sequence of live parameter edits
\* (slider steps, slider drags, applied LLM results) reset_physics restores
\* gravity, falling_gravity, walk_speed, acceleration and jump_force exactly
\* to their construction-time values; every other profile field is unchanged
\* by the edits and by the reset; a second reset_physics changes nothing.
C13_ResetRoundTrip ==
    [][/\ \A k \in DOMAIN profile \ DefaultKeys : profile'[k] = profile[k]
       /\ DOMAIN profile' = DOMAIN profile
       /\ obs'.kind = "reset_physics" =>
            /\ \A k \in DefaultKeys : profile'[k] = C13_Constructed[k]
            /\ profile' = C13_Constructed
       /\ (obs.kind = "reset_physics" /\ obs'.kind = "reset_physics") =>
            profile' = profile]_vars

\* Mario, tuned three times so that all five parameters differed from their
\* construction-time values, has just been reset to them.
C13_Witness ==
    /\ obs.kind = "reset_physics" /\ obs.edits = MaxEdits /\ obs.restored = 5
    /\ profile = MARIO

\* Frames explored in the profile-switch scenario.
MaxSwitchTicks == 4

\* 60 above the floor of BonusLevel.
SwitchSpawn == <<20, -20>>

\* The profiles the character keys of the scenario select.
SwitchTargets == {MARIO, ZELDA_LINK, MADELINE}

\* Profile switches: Madeline constructed above the floor; the right key
\* held, jump and dash keys free, a character key may be pressed between
\* frames.
SpecSwitch ==
    /\ Start({MADELINE}, {SwitchSpawn}, BonusLevel, <<>>)
    /\ [][\/ \E j \in BOOLEAN, x \in BOOLEAN : FrameUpTo(MaxSwitchTicks, Input(1, FALSE, j, x))
          \/ \E new \in SwitchTargets : SwitchProfile(new)]_vars

\* C14: switch_profile sets has_double_jumped = false and dash_active = false
\* and replaces the profile reference, and leaves position and velocity (and
\* every other field of the actor) unchanged.
C14_SwitchProfile ==
    [][obs'.kind = "switch" =>
         /\ ~player'.has_double_jumped /\ ~player'.dash_active
         /\ profile' \in SwitchTargets
         /\ player'.x = player.x /\ player'.y = player.y
         /\ player'.vx = player.vx /\ player'.vy = player.vy
         /\ player' = [player EXCEPT !.has_double_jumped = FALSE, !.dash_active = FALSE]]_vars

\* Madeline, having double-jumped and then started a dash, was switched to
\* Link in mid-dash: both flags were set and are clear, she still moves at
\* her dash speed.
C14_Witness ==
    /\ obs.kind = "switch" /\ obs.cleared = <<TRUE, TRUE>> /\ profile = ZELDA_LINK
    /\ ~player.has_double_jumped /\ ~player.dash_active
    /\ player.vx = MADELINE.dash_speed /\ player.vy # 0
    /\ <<player.x, player.y>> # SwitchSpawn

\* Frames explored in the respawn scenario.
MaxRespawnTicks == 22

\* A floor 10 above the world bottom, open to the left, with a hazard lying
\* on it.
RespawnLevel == <<Rect(0, SCREEN_HEIGHT - 10, 100, 20)>>

RespawnHazards == <<Rect(60, SCREEN_HEIGHT - 20, 10, 10)>>

\* Standing height at the left end of the floor.
RespawnSpawn == <<0, SCREEN_HEIGHT - 10 - PlayerHeight>>

\* Respawns: Meat Boy or Link constructed at the left end of the floor; the
\* left or the right key held, the reset key may be pressed between frames.
SpecRespawn ==
    /\ Start({SUPER_MEAT_BOY, ZELDA_LINK}, {RespawnSpawn}, RespawnLevel, RespawnHazards)
    /\ [][\/ \E d \in {-1, 1} : FrameUpTo(MaxRespawnTicks, Input(d, FALSE, FALSE, FALSE))
          \/ Reset]_vars

\* The actor is at its spawn position with zero velocity.
C15_AtSpawn ==
    /\ <<player'.x, player'.y>> = player'.original_pos
    /\ player'.vx = 0 /\ player'.vy = 0

\* C15: Respawn. A tick at whose end the actor overlaps a hazard or has its
\* top edge below the world bottom, and an explicit reset request, leave the
\* actor at the spawn position with velocity (0, 0): a tick ends either
\* there or clear of every hazard and not below the world bottom.
C15_Respawn ==
    [][/\ (obs'.kind = "tick" /\ ~obs'.fault) =>
            \/ C15_AtSpawn
            \/ /\ \A i \in 1..Len(hazards) : ~colliderect(hazards[i], rect(player'))
               /\ player'.y <= SCREEN_HEIGHT
       /\ (obs'.kind = "tick" /\ ~obs'.fault /\ obs'.was_reset) => C15_AtSpawn
       /\ obs'.kind = "reset" => C15_AtSpawn
       /\ player'.original_pos = player.original_pos]_vars

\* The actor walked off the left end of the floor, fell below the world
\* bottom and is back at the spawn position at rest.
C15_Witness ==
    /\ obs.kind = "tick" /\ obs.was_reset /\ ~obs.landed
    /\ obs.vy_jump > 5 * Scale /\ obs.vx_jump < 0
    /\ <<player.x, player.y>> = RespawnSpawn /\ player.vx = 0 /\ player.vy = 0

\* Frames explored in the unknown-style scenario.
MaxBogusTicks == 5

\* A CharacterProfile constructed with Madeline's values and a
\* wall_jump_style that is none of the three known ones (_validate warns).
BogusMadeline == post_init([MADELINE EXCEPT !.name = "Bogus", !.wall_jump_style = "bogus"])

\* Unknown wall-jump style: the profile above constructed in the shaft
\* against the right wall; move and jump keys free.
SpecBogus ==
    /\ Start({BogusMadeline}, {WallSpawn}, WallLevel, <<>>)
    /\ [][\E d \in {-1, 0, 1}, j \in BOOLEAN :
              FrameUpTo(MaxBogusTicks, Input(d, FALSE, j, FALSE))]_vars

\* At the jump step of the frame the actor may jump off the ground, in the
\* coyote window or a second time in the air.
C16_Eligible ==
    \/ obs'.landed
    \/ obs'.air < profile.coyote_time
    \/ profile.has_double_jump /\ ~player.has_double_jumped

\* C16: Invalid wall_jump_style. When has_wall_jump is true, the actor is on
\* a wall, a buffered jump request is live and wall_jump_style is none of the
\* three known styles, the wall-jump branch is disabled for that tick: the
\* request is not consumed by a wall jump, on_wall is not cleared, and the
\* ground/coyote/double-jump check is evaluated (an eligible actor jumps with
\* velocity.y = -jump_force, an ineligible one keeps its request).
C16_InvalidStyle ==
    [][(/\ obs'.kind = "tick" /\ ~obs'.fault /\ ~obs'.dashing
        /\ profile.has_wall_jump /\ profile.wall_jump_style \notin KnownStyles
        /\ obs'.jumped = "wall") =>
         /\ player'.on_wall
         /\ IF C16_Eligible THEN obs'.vy_jump = -profile.jump_force
            ELSE player'.jump_buffer_timer > 0]_vars

\* C17: No timer persists across a reset. After Player.reset (hazard,
\* out-of-bounds or explicit) and after switch_profile the jump buffer timer,
\* the coyote/air timer, the run buffer timer, the wall stick timer and the
\* dash timer are all cleared.
C17_TimersCleared ==
    [][(\/ obs'.kind \in {"reset", "switch"}
        \/ obs'.kind = "tick" /\ ~obs'.fault /\ obs'.was_reset) =>
         /\ player'.jump_buffer_timer = 0
         /\ player'.air_timer = 0
         /\ player'.run_buffer_timer = 0
         /\ player'.wall_stick_timer = 0
         /\ player'.dash_timer = 0]_vars

\* Frames explored in the zero-length-dash scenario.
MaxZeroDashTicks == 4

\* A CharacterProfile constructed with Link's values and dash_duration = 0.
ZeroDashLink == post_init([ZELDA_LINK EXCEPT !.name = "ZeroDash", !.dash_duration = 0])

\* Zero-length dash: the profile above constructed on the floor of
\* BonusLevel; right and neutral, jump and dash keys free.
SpecZeroDash ==
    /\ Start({ZeroDashLink}, {BonusSpawn}, BonusLevel, <<>>)
    /\ [][\E d \in {0, 1}, j \in BOOLEAN, x \in BOOLEAN :
              FrameUpTo(MaxZeroDashTicks, Input(d, FALSE, j, x))]_vars

\* C18: Countdown timers saturate at zero. In every reachable state, for
\* every profile (dash_duration = 0 included), jump_buffer_timer,
\* run_buffer_timer, wall_stick_timer and dash_timer are all >= 0.
C18_TimersNonNegative ==
    /\ player.jump_buffer_timer >= 0
    /\ player.run_buffer_timer >= 0
    /\ player.wall_stick_timer >= 0
    /\ player.dash_timer >= 0

\* A completed frame in which no jump fired.
C19_NoJumpTick == obs'.kind = "tick" /\ ~obs'.fault /\ obs'.jumped = "none"

\* C19 (as amended): a jump press edge that input processing registers (no
\* dash active on that tick) sets the buffer timer to jump_buffer; on every
\* later tick without a dash and without a new registered edge the timer
\* counts down by one, not below 0, whether or not a jump is possible; on a
\* dash tick it is left as it is; a jump that fires sets it to 0.  The
\* request is therefore live on the press tick and on the jump_buffer - 1
\* following non-dash ticks, and dead from the jump_buffer-th on.
C19_BufferLifetime ==
    [][/\ (C19_NoJumpTick /\ obs'.dashing) =>
            player'.jump_buffer_timer = player.jump_buffer_timer
       /\ (C19_NoJumpTick /\ C1_Registered) =>
            player'.jump_buffer_timer = profile.jump_buffer
       /\ (C19_NoJumpTick /\ ~obs'.dashing /\ ~C1_Registered) =>
            player'.jump_buffer_timer = Max(0, player.jump_buffer_timer - 1)
       /\ (C19_NoJumpTick /\ obs'.press_age >= 0) =>
            player'.jump_buffer_timer = Max(0, profile.jump_buffer - obs'.press_age)
       /\ (obs'.kind = "tick" /\ ~obs'.fault /\ obs'.jumped # "none") =>
            /\ player'.jump_buffer_timer = 0
            /\ obs'.dashing => player.jump_buffer_timer > 0
            /\ (~obs'.dashing /\ ~C1_Registered) => player.jump_buffer_timer > 1]_vars

\* A press made in the air when no jump was possible is on its last live
\* tick, jump_buffer - 1 ticks after the press, still without a jump.
C19_Witness ==
    /\ obs.kind = "tick" /\ obs.jumped = "none" /\ ~obs.landed
    /\ obs.press_age = profile.jump_buffer - 1 /\ player.jump_buffer_timer = 1
    /\ player.air_timer > profile.coyote_time

\* C19 as stated: the request is live for jump_buffer ticks after the press
\* edge, and the timer counts down by one on every tick without a new press
\* edge, whether or not a jump is possible and whether or not a dash is
\* active.
C19_Original ==
    [][C19_NoJumpTick =>
         /\ ~C1_Press => player'.jump_buffer_timer = Max(0, player.jump_buffer_timer - 1)
         /\ obs'.press_age \in 0..(profile.jump_buffer - 1) =>
              player'.jump_buffer_timer > 0]_vars

\* A completed frame in which a dash was active at input processing.
C20_DashTick == obs'.kind = "tick" /\ ~obs'.fault /\ obs'.dashing

\* The actor as input processing of the frame left it.
C20_AfterInput == get_input(player, profile, obs'.input)

\* C20: Dash input freeze. On every tick on which a dash is active at input
\* processing, input processing leaves the jump buffer timer, the
\* jump-button latch, the run buffer timer, the wall stick timer,
\* facing_right, is_skidding and the stored input direction unchanged; the
\* latch, the run buffer timer, facing_right, is_skidding and the stored
\* direction are still unchanged at the end of the tick, the jump buffer
\* timer unless a jump fired, the wall stick timer unless the actor newly
\* touched a wall; so a jump press made inside the dash does not arm the
\* buffer.
C20_DashInputFreeze ==
    [][C20_DashTick =>
         /\ C20_AfterInput.jump_buffer_timer = player.jump_buffer_timer
         /\ C20_AfterInput.jump_button_was_pressed = player.jump_button_was_pressed
         /\ C20_AfterInput.run_buffer_timer = player.run_buffer_timer
         /\ C20_AfterInput.wall_stick_timer = player.wall_stick_timer
         /\ C20_AfterInput.facing_right = player.facing_right
         /\ C20_AfterInput.is_skidding = player.is_skidding
         /\ C20_AfterInput.last_input_direction = player.last_input_direction
         /\ player'.jump_button_was_pressed = player.jump_button_was_pressed
         /\ player'.run_buffer_timer = player.run_buffer_timer
         /\ player'.run_button_held = player.run_button_held
         /\ player'.facing_right = player.facing_right
         /\ player'.is_skidding = player.is_skidding
         /\ player'.last_input_direction = player.last_input_direction
         /\ obs'.jumped = "none" => player'.jump_buffer_timer = player.jump_buffer_timer
         /\ player'.jump_buffer_timer <= player.jump_buffer_timer
         /\ player.on_wall => player'.wall_stick_timer = player.wall_stick_timer]_vars

\* Madeline, two or more ticks into a dash, had the jump key pressed with
\* the latch clear and the right key held: the buffer is not armed, the
\* latch is still clear, the stored direction is still neutral.
C20_Witness ==
    /\ obs.kind = "tick" /\ obs.dashing /\ obs.dash_age >= 2
    /\ obs.input.jump /\ obs.input.dir = 1
    /\ ~player.jump_button_was_pressed /\ player.jump_buffer_timer = 0
    /\ player.last_input_direction = 0 /\ player.dash_active

\* C21: Dash starts only on a press edge. A dash is activated only on a tick
\* on which the dash key goes from released to pressed (with has_dash and no
\* dash active); holding the key starts one dash and no second one when the
\* first expires.
C21_DashOnEdge ==
    [][(obs'.kind = "tick" /\ ~obs'.fault /\ obs'.dashing /\ obs'.dash_age = 1) =>
         /\ profile.has_dash /\ ~player.dash_active
         /\ obs'.input.dash /\ ~obs.input.dash]_vars

\* ---- Holding the jump key

MaxHoldTicks == 15

\* Holding keys: Madeline constructed on the floor; the jump key and the dash
\* key free, no direction held.
SpecHold ==
    /\ Start({MADELINE}, {BonusSpawn}, LandLevel, <<>>)
    /\ [][\E j \in BOOLEAN, x \in BOOLEAN : FrameUpTo(MaxHoldTicks, Input(0, FALSE, j, x))]_vars

\* C22: Jump is edge-triggered. While the jump key is held without a break,
\* over any number of ticks and with or without dash ticks among them,
\* get_input registers at most one press edge (arms the buffer at most once),
\* and at most one jump impulse of any kind fires per registered edge; a jump
\* fires only with a live request.  A further impulse therefore needs a
\* release and a new press.
C22_HoldArmsOnce ==
    /\ obs.hold_arms <= 1
    /\ obs.arm_impulses <= 1
    /\ (obs.kind = "tick" /\ obs.jumped # "none") => obs.arm_impulses = 1

\* The key was pressed before a dash and is still down on the last tick of
\* the dash; the press fired a jump, a double jump is available throughout,
\* and no second impulse has fired.
C22_Witness ==
    /\ obs.dashing /\ obs.dash_age = profile.dash_duration
    /\ obs.hold_arms = 1 /\ obs.arm_impulses = 1
    /\ can_double_jump(player, profile)

\* ---- Coyote jumps across profile switches

MaxCoyoteTicks == 5

\* Link constructed standing on the floor of LandLevel; right and neutral and
\* the jump key free, a character key may be pressed between frames.
SpecCoyote ==
    /\ Start({ZELDA_LINK}, {BonusSpawn}, LandLevel, <<>>)
    /\ [][\/ \E d \in {0, 1}, j \in BOOLEAN : FrameUpTo(MaxCoyoteTicks, Input(d, FALSE, j, FALSE))
          \/ \E new \in {MARIO, ZELDA_LINK} : SwitchProfile(new)]_vars

\* C23: No repeated coyote jump. Under any sequence of ticks and profile
\* switches, once a ground/coyote jump has fired no further ground/coyote
\* jump fires until the actor has landed again.
C23_NoRepeatedCoyote == obs.grounds <= 1

\* C24: Coyote jump needs prior ground contact. A ground/coyote jump fires
\* only on a tick on which the actor is grounded or was grounded within the
\* preceding coyote_time ticks; an actor that has never touched the ground
\* since construction fires none.
C24_CoyoteNeedsGround ==
    (obs.kind = "tick" /\ ~obs.fault /\ obs.jumped = "ground") =>
        (obs.since_ground >= 0 /\ obs.since_ground <= profile.coyote_time)

\* ---- Wall jump against ground jump

MaxPriorityTicks == 10

\* A floor with a low block on it.
PriorityLevel == <<Rect(0, 100, 300, 20), Rect(110, 85, 30, 15)>>

\* Wall-jump priority: each wall-jumping shipped profile and the profile with
\* an unknown style, constructed beside the block, high above the floor or
\* just above it (15 and 2 above the floor); right and neutral and the jump key free.
SpecPriority ==
    /\ Start({SUPER_MEAT_BOY, MADELINE, N_NINJA, BogusMadeline}, {<<80, 25>>, <<80, 38>>}, PriorityLevel, <<>>)
    /\ [][\E d \in {0, 1}, j \in BOOLEAN : FrameUpTo(MaxPriorityTicks, Input(d, FALSE, j, FALSE))]_vars

\* The velocity.y a wall jump of the profile's style sets.
C25_WallJumpVy ==
    IF profile.wall_jump_style = "npp" THEN -Mul(profile.jump_force, 900)
    ELSE -profile.jump_force

\* C25: Wall-jump priority. On a tick where has_wall_jump holds and at the
\* jump step the actor is on a wall with a live buffered request, Player.jump
\* takes the wall-jump branch, also when the actor is grounded or inside the
\* coyote window: velocity.y becomes the style's wall-jump value (for a known
\* style), the regular jump does not run (air_timer and has_double_jumped
\* stay as the jump step found them), and the frame ends with the request
\* cleared and on_wall false.
C25_WallJumpPriority ==
    [][(obs'.kind = "tick" /\ ~obs'.fault /\ ~obs'.was_reset
        /\ profile.has_wall_jump /\ obs'.walled /\ obs'.live) =>
         /\ obs'.jumped = "wall"
         /\ profile.wall_jump_style \in KnownStyles =>
                (obs'.vy_jump = C25_WallJumpVy /\ player'.vy = C25_WallJumpVy)
         /\ player'.air_timer = obs'.air
         /\ player'.on_ground = obs'.landed
         /\ player'.has_double_jumped = (~obs'.landed /\ player.has_double_jumped)
         /\ player'.jump_buffer_timer = 0
         /\ ~player'.on_wall]_vars

\* A wall jump fired on a tick on which the actor had landed.
C25_Witness ==
    /\ obs.kind = "tick" /\ obs.walled /\ obs.live /\ obs.landed
    /\ obs.jumped = "wall" /\ profile = SUPER_MEAT_BOY
    /\ player.vy = -profile.jump_force /\ ~player.on_wall

\* ---- Jumping out of a dash

MaxDashJumpTicks == 25

\* Landing in a dash: Link constructed 220 above the floor; the jump key and
\* the dash key free, no direction held.
SpecDashJump ==
    /\ Start({ZELDA_LINK}, {<<20, -180>>}, BonusLevel, <<>>)
    /\ [][\E j \in BOOLEAN, x \in BOOLEAN : FrameUpTo(MaxDashJumpTicks, Input(0, FALSE, j, x))]_vars

\* C26: Dash jump bonus. A ground/coyote/double jump that fires on a tick of
\* the dash window, its last tick included, sets velocity.y to minus 1.2
\* times the total jump strength (base force plus run bonus).
C26_DashJumpBonus ==
    [][(obs'.kind = "tick" /\ ~obs'.fault /\ obs'.dashing
        /\ obs'.jumped \in {"ground", "double"}) =>
         obs'.vy_jump = -Mul(C1_Strength, 1200)]_vars

\* ---- Releasing the run key

MaxReleaseTicks == 17

\* The run buffer: the two profiles with a run buffer constructed on the
\* floor of BonusLevel; the right key held, the run key free.
SpecRelease ==
    /\ Start({MARIO, N_NINJA}, {BonusSpawn}, BonusLevel, <<>>)
    /\ [][\E r \in BOOLEAN : FrameUpTo(MaxReleaseTicks, Input(1, r, FALSE, FALSE))]_vars

\* C27 (as amended): on a tick on which no dash is active at input
\* processing, the run buffer is set to run_buffer_frames if the run key is
\* held and counts down by one, not below zero, if it is not; on a dash tick
\* it is left alone.  With a direction held the target speed is run_speed
\* while the key is held and on the first run_buffer_frames - 1 processed
\* ticks after it was last held, and walk_speed from the
\* run_buffer_frames-th such tick on (and when the key was never held).
C27_RunBuffer ==
    [][(obs'.kind = "tick" /\ ~obs'.fault) =>
         /\ obs'.dashing => player'.run_buffer_timer = player.run_buffer_timer
         /\ (~obs'.dashing /\ obs'.input.run) =>
                player'.run_buffer_timer = profile.run_buffer_frames
         /\ (~obs'.dashing /\ ~obs'.input.run) =>
                player'.run_buffer_timer = Max(0, player.run_buffer_timer - 1)
         /\ (~obs'.dashing /\ obs'.move_dir # 0) =>
                obs'.target = obs'.move_dir *
                    (IF \/ obs'.input.run
                        \/ /\ obs'.release_age >= 1
                           /\ obs'.release_age <= profile.run_buffer_frames - 1
                     THEN profile.run_speed ELSE profile.walk_speed)]_vars

\* The run key was released run_buffer_frames ticks ago after being held:
\* the first tick back at walk speed.
C27_Witness ==
    /\ obs.kind = "tick" /\ profile.run_buffer_frames = 10
    /\ obs.release_age = profile.run_buffer_frames
    /\ obs.move_dir = 1 /\ obs.target = profile.walk_speed
    /\ player.run_buffer_timer = 0

\* C27 as stated: the target speed is run_speed on each of the
\* run_buffer_frames ticks after the release.
C27_Original ==
    [][(obs'.kind = "tick" /\ ~obs'.fault /\ ~obs'.dashing /\ obs'.move_dir # 0
        /\ obs'.release_age >= 1 /\ obs'.release_age <= profile.run_buffer_frames) =>
         obs'.target = obs'.move_dir * profile.run_speed]_vars

\* ---- Sticking to a wall

MaxStickTicks == 17

\* Wall stickiness: the three wall-sliding profiles constructed in the shaft
\* against the right wall; left and neutral and the dash key free.
SpecStick ==
    /\ Start({SUPER_MEAT_BOY, MADELINE, N_NINJA}, {WallSpawn}, WallLevel, <<>>)
    /\ [][\E d \in {-1, 0}, x \in BOOLEAN : FrameUpTo(MaxStickTicks, Input(d, FALSE, FALSE, x))]_vars

\* C28 (as amended): on a tick on which the actor is on a wall and airborne
\* and no dash is active at input processing, input away from the wall is
\* cancelled (move_dir 0) and the stick timer counts down by one while the
\* timer is above zero, which it is on exactly the first wall_stick_time
\* ticks of away input after the timer was last set; from the next such tick
\* on the input is honoured.  Input toward the wall or neutral input on such
\* a tick sets the timer to wall_stick_time.  On a dash tick the timer is
\* left unchanged whatever the input.
C28_WallStick ==
    [][(obs'.kind = "tick" /\ ~obs'.fault /\ on_wall_airborne(player)) =>
         /\ obs'.dashing => player'.wall_stick_timer = player.wall_stick_timer
         /\ (~obs'.dashing /\ ~away_input(player, obs'.input.dir)) =>
                /\ player'.wall_stick_timer = profile.wall_stick_time
                /\ obs'.move_dir = obs'.input.dir
         /\ (~obs'.dashing /\ away_input(player, obs'.input.dir)) =>
                /\ obs'.away_age >= 1
                /\ player'.wall_stick_timer =
                       Max(0, profile.wall_stick_time - obs'.away_age)
                /\ obs'.away_age <= profile.wall_stick_time =>
                       (/\ obs'.move_dir = 0
                        /\ player'.wall_stick_timer = player.wall_stick_timer - 1)
                /\ obs'.away_age > profile.wall_stick_time =>
                       obs'.move_dir = obs'.input.dir]_vars

\* Meat Boy has held away from the wall for wall_stick_time + 1 ticks: the
\* first tick on which the input is honoured.
C28_Witness ==
    /\ obs.kind = "tick" /\ profile.wall_stick_time = 15
    /\ obs.away_age = profile.wall_stick_time + 1
    /\ obs.input.dir = -1 /\ obs.move_dir = -1
    /\ player.vx < 0

\* C28 as stated: any tick on a wall and airborne with input toward the wall
\* or neutral input sets the stick timer to wall_stick_time.
C28_Original ==
    [][(obs'.kind = "tick" /\ ~obs'.fault /\ on_wall_airborne(player)
        /\ ~away_input(player, obs'.input.dir)) =>
         player'.wall_stick_timer = profile.wall_stick_time]_vars

\* ---- Landing on a step

MaxStepTicks == 14

\* A floor and a block 5 higher lying on it.
StepLevel == <<Rect(0, 100, 300, 20), Rect(60, 95, 100, 25)>>

\* Collisions with two platforms: each shipped profile constructed 55 above
\* the block; the jump key free, no other key pressed.
SpecStep ==
    /\ Start(RealProfiles, {LandSpawn}, StepLevel, <<>>)
    /\ [][\E j \in BOOLEAN : FrameUpTo(MaxStepTicks, Input(0, FALSE, j, FALSE))]_vars

\* C29: Collision push-out. After each axis pass of a tick, every static
\* rectangle that overlapped the actor after that axis' displacement has been
\* left (the actor was pushed out of it along the axis) and the velocity
\* component of the axis is 0, also when several rectangles overlap at once
\* and when the velocity component is 0.
C29_PushOut ==
    (obs.kind = "tick" /\ ~obs.fault) => (~obs.embedded_h /\ ~obs.embedded_v)

\* The actor's rectangle after the vertical displacement of the frame that
\* ends in the primed state (no reset having moved the actor since).
C30_Moved == Rect(player'.x, MoveInt(player.y, obs'.vy_grav), PlayerWidth, PlayerHeight)

\* The vertical pass of the frame hits a platform while moving down.
C30_DownwardHit ==
    /\ obs'.vy_grav > 0
    /\ \E i \in 1..Len(platforms) : colliderect(platforms[i], C30_Moved)

\* C30: Landing. A vertical collision while moving downward snaps the actor's
\* bottom to the top of a rectangle it hit, sets velocity.y = 0 and
\* on_ground = true and resets the air timer to 0 and has_double_jumped to
\* false (the frame ends so unless the jump step fires); on_ground is true at
\* the jump step of a tick exactly if such a landing happened in that tick.
C30_Landing ==
    [][(obs'.kind = "tick" /\ ~obs'.fault /\ ~obs'.was_reset) =>
         /\ obs'.landed <=> C30_DownwardHit
         /\ obs'.landed =>
              /\ \E i \in 1..Len(platforms) :
                    /\ colliderect(platforms[i], C30_Moved)
                    /\ player'.y + PlayerHeight = platforms[i].y
              /\ obs'.air = 0
              /\ ~player'.has_double_jumped
              /\ obs'.jumped = "none" =>
                    /\ player'.vy = 0 /\ player'.on_ground
                    /\ player'.air_timer = 0
         /\ ~obs'.landed => (obs'.air = player.air_timer + 1 /\ ~player'.on_ground)]_vars

\* Madeline lands after a double jump, no jump firing on the landing tick.
C30_Witness ==
    /\ obs.kind = "tick" /\ obs.landed /\ obs.land_cleared /\ obs.jumped = "none"
    /\ player.on_ground /\ player.vy = 0 /\ player.air_timer = 0
    /\ ~player.has_double_jumped
    /\ player.y + PlayerHeight = 100

\* ---- The gravity step

\* C31: Wall slide. On a tick where the actor is on a wall at the gravity
\* step, the profile has has_wall_slide and velocity.y > 0, the gravity step
\* sets velocity.y to min(velocity.y, wall_slide_speed) and adds no gravity;
\* on every other tick gravity (falling_gravity when velocity.y > 0) is added
\* and the result is clamped to max_fall_speed.
C31_WallSlide ==
    [][(obs'.kind = "tick" /\ ~obs'.fault) =>
         IF obs'.walled /\ profile.has_wall_slide /\ player.vy > 0
         THEN obs'.vy_grav = Min(player.vy, profile.wall_slide_speed)
         ELSE obs'.vy_grav = Min(player.vy + (IF player.vy > 0 THEN profile.falling_gravity
                                              ELSE profile.gravity),
                                 profile.max_fall_speed)]_vars

\* The actor reached the left wall falling faster than wall_slide_speed and
\* the gravity step cut the fall to wall_slide_speed.
C31_Witness ==
    /\ obs.kind = "tick" /\ obs.sliding /\ obs.walled
    /\ player.wall_direction = -1
    /\ obs.vy_grav = profile.wall_slide_speed
    /\ player.y > WallSpawn[2]

\* ---- Wall detection

\* C32: Fresh wall contact. On every tick where wall contact goes from false
\* to true (the tick after a wall jump cleared on_wall while the actor still
\* touches the wall included), the wall stick timer is set to wall_stick_time;
\* on ticks where contact persists, and on ticks without contact, wall
\* detection leaves the timer as get_input left it.
C32_FreshContact ==
    [][(obs'.kind = "tick" /\ ~obs'.fault) =>
         /\ obs'.contact \in {"fresh", "regrab"} <=> (obs'.walled /\ ~player.on_wall)
         /\ (obs.kind = "tick" /\ obs.jumped = "wall" /\ obs'.walled) => obs'.contact = "regrab"
         /\ obs'.contact \in {"fresh", "regrab"} =>
              player'.wall_stick_timer = profile.wall_stick_time
         /\ obs'.contact \in {"none", "lost", "kept"} =>
              player'.wall_stick_timer
                  = get_input(player, profile, obs'.input).wall_stick_timer]_vars

\* The tick after a wall jump toward the wall found the actor on the wall
\* again, and the stick timer is at its maximum.
C32_Witness ==
    /\ obs.kind = "tick" /\ obs.contact = "regrab"
    /\ player.on_wall /\ player.wall_stick_timer = profile.wall_stick_time
    /\ profile.wall_stick_time > 0

\* ---- Wall jump of the momentum style

MaxNinjaTicks == 20

\* A floor with a wall standing on it.
NinjaLevel == <<Rect(0, 100, 300, 20), Rect(150, 0, 30, 100)>>

\* The ninja running into a wall: N Ninja constructed on the floor, 70 px
\* left of the wall or flush with it; right and the run key held, the jump
\* key free.
SpecNinja ==
    /\ Start({N_NINJA}, {<<50, 40>>, <<120, 40>>}, NinjaLevel, <<>>)
    /\ [][\E j \in BOOLEAN : FrameUpTo(MaxNinjaTicks, Input(1, TRUE, j, FALSE))]_vars

\* The actor as the jump step of the frame finds it, as far as the wall jump
\* reads it: velocity.x and wall_direction.
C33_AtWall == after_wall_contact(player, profile, obs'.input, platforms)

\* C33: Wall jump style "npp". Whenever a wall jump of this style fires,
\* velocity.y = -0.9 * jump_force and velocity.x = -wall_direction *
\* max(|velocity.x before the jump|, walk_speed) * 1.1, so the horizontal
\* kick is at least 1.1 * walk_speed away from the wall.
C33_WallJumpNpp ==
    [][(obs'.kind = "tick" /\ ~obs'.fault /\ obs'.jumped = "wall"
        /\ profile.wall_jump_style = "npp") =>
         /\ C33_AtWall.wall_direction \in {-1, 1}
         /\ obs'.vy_jump = -Mul(profile.jump_force, 900)
         /\ obs'.vx_jump = -C33_AtWall.wall_direction
                            * Mul(Max(Abs(C33_AtWall.vx), profile.walk_speed), 1100)
         /\ -C33_AtWall.wall_direction * obs'.vx_jump >= Mul(profile.walk_speed, 1100)]_vars

\* The ninja arrived flush with the wall faster than walk_speed and jumped
\* off it with more than 1.1 * walk_speed.
C33_Witness ==
    /\ obs.kind = "tick" /\ obs.jumped = "wall" /\ profile.wall_jump_style = "npp"
    /\ obs.vx_jump < -Mul(profile.walk_speed, 1100)
    /\ obs.vy_jump = -Mul(profile.jump_force, 900)

\* ---- The order of a tick

\* The actor as the jump step of the frame finds it.
C34_BeforeJump == before_jump(player, profile, obs'.input, platforms)

\* The tick before this one fired a jump that left the actor moving up, and
\* nothing happened in between.
C34_JumpedBefore ==
    /\ obs.kind = "tick" /\ ~obs.fault /\ ~obs.was_reset
    /\ obs.jumped # "none" /\ player.vy = obs.vy_jump /\ player.vy < 0

\* C34: Tick order. Every update runs input/dash, horizontal displacement,
\* horizontal collision, wall contact detection, gravity, vertical
\* displacement, vertical collision, jump, terminal checks, in that order. The
\* jump step changes velocity and flags only: a jump fired on tick t leaves
\* the position of tick t as the vertical collision pass left it, and the
\* vertical displacement of tick t+1 is the first to move the actor by the
\* jump velocity (plus that tick's gravity), up to what the collision pass of
\* tick t+1 takes back.
C34_TickOrder ==
    [][(obs'.kind = "tick" /\ ~obs'.fault) =>
         /\ player' = update(player, profile, obs'.input, platforms, hazards)
         /\ (obs'.jumped # "none" /\ ~obs'.was_reset) =>
              /\ player'.x = C34_BeforeJump.x
              /\ player'.y = C34_BeforeJump.y
              /\ player'.vy = obs'.vy_jump
         /\ (C34_JumpedBefore /\ ~obs'.was_reset) =>
              /\ obs'.vy_grav = player.vy + profile.gravity
              /\ MoveInt(player.y, obs'.vy_grav) < player.y
              /\ \/ player'.y = MoveInt(player.y, obs'.vy_grav)
                 \/ \E i \in 1..Len(platforms) :
                        player'.y = platforms[i].y + platforms[i].h]_vars

\* One tick after a jump off the floor: the jump velocity, less one tick of
\* gravity, has moved the actor up from its standing height.
C34_Witness ==
    /\ obs.kind = "tick" /\ obs.jumped = "none" /\ ~obs.landed
    /\ obs.since_ground = 1 /\ obs.air = profile.coyote_time + 1
    /\ player.vy = profile.gravity - profile.jump_force
    /\ player.y = MoveInt(JumpSpawn[2], player.vy)

\* ---- Empty geometry

MaxEmptyTicks == 50

\* The most ticks between two resets in the empty scenario (the first cycle,
\* with a jump in mid-air, is the longest).
MaxFallTicks == 36

\* No platforms: Link and the profile with run_speed 0 constructed 10 px above
\* the world bottom; the jump key and the dash key free.
SpecEmpty ==
    /\ Start({ZELDA_LINK, ZeroRunMario}, {<<200, SCREEN_HEIGHT - 10>>}, EmptyLevel, <<>>)
    /\ [][\E j \in BOOLEAN, x \in BOOLEAN :
              FrameUpTo(MaxEmptyTicks, Input(0, FALSE, j, x))]_vars

\* C35: Empty geometry. With zero static rectangles and a profile with
\* gravity > 0 and max_fall_speed > 0, every tick completes without fault and
\* under any input sequence the actor falls below the world bottom and is
\* reset to the spawn position again and again (here: at most MaxFallTicks ticks
\* pass without a reset).
C35_EmptyGeometry ==
    /\ profile.gravity > 0 /\ profile.max_fall_speed > 0 /\ platforms = <<>>
    /\ ~obs.fault
    /\ obs.since_reset <= MaxFallTicks

\* ---- Live tuning from the LLM thread

MaxAsyncTicks == 4

\* At most this many LLM results arrive in the scenario.
MaxAsyncEdits == 1

\* Results of _parse_response: all five parameters at the upper end of their
\* ranges, or gravity and jump_force at the lower end.
AsyncResults ==
    {[k \in DefaultKeys |-> SliderRange[k][2]],
     [gravity |-> SliderRange["gravity"][1], jump_force |-> SliderRange["jump_force"][1]]}

\* Live tuning by description: Mario constructed on the floor of BonusLevel;
\* right and neutral and the jump key free; an LLM result is applied between
\* two frames or by the thread during a frame.
SpecAsync ==
    /\ Start({MARIO}, {BonusSpawn}, BonusLevel, <<>>)
    /\ [][\/ \E d \in {0, 1}, j \in BOOLEAN : FrameUpTo(MaxAsyncTicks, Input(d, FALSE, j, FALSE))
          \/ /\ obs.edits < MaxAsyncEdits
             /\ \E physics_dict \in AsyncResults : ApplyPhysics(physics_dict)
          \/ /\ obs.edits < MaxAsyncEdits /\ ticks < MaxAsyncTicks /\ ticks' = ticks + 1
             /\ \E d \in {0, 1}, j \in BOOLEAN, physics_dict \in AsyncResults :
                    \E a \in 0..Len(ValidParams), b \in 0..Len(ValidParams),
                       c \in 0..Len(ValidParams) :
                        ProcessAsync(Input(d, FALSE, j, FALSE), physics_dict, a, b, c)]_vars

\* C36: No concurrent mutation. The profile parameters a tick reads are not
\* modified while the tick is executing: live-tuning writes (slider, applied
\* LLM result, reset_physics) happen only between ticks, and a tick never
\* observes a partially applied set of LLM parameters, so every tick is
\* Player.update with the profile of its beginning, which is the profile of
\* its end.
C36_NoConcurrentMutation ==
    [][(obs'.kind \in {"tick", "async"} /\ ~obs'.fault) =>
         /\ profile' = profile
         /\ player' = update(player, profile, obs'.input, platforms, hazards)]_vars

\* ---- The dash flag

\* C37: Dash state invariant. At the end of every tick and after every reset
\* or profile switch, dash_active = true implies that the current profile has
\* has_dash and that dash_timer >= 1.
C37_DashState ==
    player.dash_active => (profile.has_dash /\ player.dash_timer >= 1)

\* A dash runs in the profile switched to: Link, after a switch from
\* Madeline, has taken the first tick of a dash.
C37_Witness ==
    /\ obs.kind = "tick" /\ profile = ZELDA_LINK
    /\ player.dash_active /\ player.dash_timer = profile.dash_duration - 1

\* ---- Wall jump without wall slide

MaxNoSlideTicks == 5

\* Madeline's values with has_wall_jump but without has_wall_slide.
NoSlideMadeline == post_init([MADELINE EXCEPT !.name = "NoSlide", !.has_wall_slide = FALSE])

\* Switching on a wall: Meat Boy or Madeline constructed flush with the right
\* wall of WallLevel; right and neutral and the jump key free; a character
\* key may select the profile without wall slide, or Madeline, between frames.
SpecNoSlide ==
    /\ Start({SUPER_MEAT_BOY, MADELINE}, {WallSpawn}, WallLevel, <<>>)
    /\ [][\/ \E d \in {0, 1}, j \in BOOLEAN :
                 FrameUpTo(MaxNoSlideTicks, Input(d, FALSE, j, FALSE))
          \/ \E new \in {NoSlideMadeline, MADELINE} : SwitchProfile(new)]_vars

\* C38: A wall jump fires only on a tick where the current profile has both
\* has_wall_jump and has_wall_slide and wall_direction is -1 or 1; a profile
\* with has_wall_jump but without has_wall_slide never wall jumps, also on
\* the first tick after a switch from a profile that was on a wall.
C38_WallJumpNeedsSlide ==
    [][(obs'.kind = "tick" /\ ~obs'.fault) =>
         /\ obs'.jumped = "wall" =>
              /\ profile.has_wall_jump /\ profile.has_wall_slide
              /\ player'.wall_direction \in {-1, 1}
         /\ (profile.has_wall_jump /\ ~profile.has_wall_slide) =>
              /\ obs'.jumped # "wall"
              /\ ~obs'.walled /\ player'.wall_direction = 0]_vars

\* The first tick after a switch on the wall: the profile without wall slide
\* still touches the wall, the detection cleared the on_wall it inherited,
\* and the pending jump request did not fire a wall jump.
C38_Witness ==
    /\ obs.kind = "tick" /\ obs.contact = "lost"
    /\ profile.has_wall_jump /\ ~profile.has_wall_slide
    /\ wall_from(player, platforms, 1, 0) # 0
    /\ obs.live /\ obs.jumped \in {"ground", "double"}

\* ---- What a wall jump leaves alone

\* The actor as the jump step of the frame finds it.
C39_BeforeJump == before_jump(player, profile, obs'.input, platforms)

\* C39: A wall jump leaves the air timer, has_double_jumped and on_ground
\* unchanged: it neither consumes nor restores the double jump and does not
\* close the coyote window.
C39_WallJumpFrame ==
    [][(obs'.kind = "tick" /\ ~obs'.fault /\ obs'.jumped = "wall") =>
         /\ player'.air_timer = C39_BeforeJump.air_timer
         /\ player'.on_ground = C39_BeforeJump.on_ground
         /\ ~obs'.was_reset => player'.has_double_jumped = C39_BeforeJump.has_double_jumped
         /\ (player'.on_ground \/ player'.air_timer < profile.coyote_time)
                <=> can_jump(C39_BeforeJump, profile)]_vars

\* A wall jump fired for the actor standing on the floor beside the block:
\* it is still on the ground with air timer 0, the coyote window open.
C39_Witness ==
    /\ obs.kind = "tick" /\ obs.jumped = "wall" /\ ~obs.was_reset
    /\ player.on_ground /\ player.air_timer = 0 /\ player.vy < 0
    /\ ~player.has_double_jumped

\* ---- Edits and profile switches

MaxShelfEdits == 2

\* Editing and switching: Mario constructed on the floor of BonusLevel; the
\* gravity and jump sliders are stepped, at most MaxShelfEdits times; the
\* character keys select Link or Mario, whichever is not selected; the reset
\* key and the reset button are pressed, all between frames.
SpecShelf ==
    /\ Start({MARIO}, {BonusSpawn}, BonusLevel, <<>>)
    /\ [][\/ /\ obs.edits < MaxShelfEdits
             /\ \E name \in {"gravity", "jump_force"}, direction \in {-1, 1} :
                    AdjustByStep(name, direction)
          \/ \E new \in {MARIO, ZELDA_LINK} : new.name # profile.name /\ SwitchProfile(new)
          \/ Reset
          \/ ResetPhysics]_vars

\* The CharacterProfile object called n, selected or not.
C40_Object(pr, others, n) == IF n = pr.name THEN pr ELSE others[n]

\* C40: Profile edits are per profile object and survive switching.
\* switch_profile and Player.reset modify no field of any profile: every
\* profile object is after the step what it was before, so the edits made to
\* a profile are in effect when it is selected again; an edit and
\* reset_physics change the selected profile only.
C40_EditsSurvive ==
    [][/\ obs'.kind \in {"switch", "reset"} =>
            /\ DOMAIN inactive \cup {profile.name} \subseteq DOMAIN inactive' \cup {profile'.name}
            /\ \A n \in DOMAIN inactive \cup {profile.name} :
                   C40_Object(profile', inactive', n) = C40_Object(profile, inactive, n)
       /\ (obs'.kind = "switch" /\ profile'.name \in DOMAIN inactive) =>
            profile' = inactive[profile'.name]
       /\ obs'.kind \in {"step", "reset_physics"} =>
            /\ inactive' = inactive
            /\ profile'.name = profile.name]_vars

\* Mario's gravity was stepped, Link was selected and his gravity stepped,
\* and Mario is selected again: both edits are in effect.
C40_Witness ==
    /\ obs.kind = "switch" /\ obs.edits = 2
    /\ profile.name = "Mario" /\ profile.gravity # MARIO.gravity
    /\ "Link" \in DOMAIN inactive
    /\ inactive["Link"].gravity # ZELDA_LINK.gravity

====
